---- MODULE Spec2Model ----
(***************************************************************************)
(* Destination-discovery conversation engine of MyTravelAgent.             *)
(*                                                                         *)
(* backend/destination_search/logic/recommendation_engine.py : parsers,    *)
(*   prechecks, question graph, destination graph, WorkflowManager.        *)
(* backend/destination_search/views.py : chat_message,                     *)
(*   handle_post_destination_message, reset_conversation.                  *)
(*                                                                         *)
(* Text is modelled at character level: a string is a sequence of          *)
(* one-character strings, a multi-line text is the sequence of its lines   *)
(* (the result of str.splitlines()).  Fixed literals that the program only *)
(* concatenates (prompt tags, notes) are kept as single pieces.            *)
(***************************************************************************)
EXTENDS Integers, Sequences, FiniteSets, TLC

VARIABLES
    state,      \* engine: the workflow State dict threaded through the graphs
    node,       \* engine: graph node about to run ("idle" between API calls)
    calls,      \* engine: llm.invoke calls made by the API call in progress
    result,     \* engine: return value of the last WorkflowManager API call
    trip,       \* store: the Trip row (status, destination)
    conv,       \* store: TripConversation + ConversationState row, or NoConv
    messages,   \* store: Message rows of the conversation, in order
    recs,       \* store: Recommendations rows of the conversation, in order
    response,   \* chat: the HTTP response of the last request
    requests,   \* chat: number of requests issued so far
    other,      \* store: the rows of a second trip (trip, conv, messages, recs)
    request,    \* chat: the request last received (user, trip_id, kind, ...)
    session,    \* store: the PlanningSession row of the trip
    inflight    \* chat: the requests being handled at the same time

vars == <<state, node, calls, result, trip, conv, messages, recs, response, requests,
          other, request, session, inflight>>
engineVars == <<state, node, calls, result>>
tripsVars == <<other, request, session, inflight>>
storeVars ==
    <<trip, conv, messages, recs, response, requests, other, request, session, inflight>>

\* the specifications of one trip: no second trip, every request is for the
\* trip, no planning session, one request at a time
SingleTrip == other = <<>> /\ request = <<>> /\ session = <<>> /\ inflight = <<>>

(***************************************************************************)
(* Bounds of the model                                                     *)
(***************************************************************************)
MaxLines == 7          \* lines of the longest generated question list
MaxRequests == 6       \* chat requests issued in one behaviour
MaxTripRequests == 4   \* requests issued to the two trips in one behaviour
MaxSessionRequests == 8 \* requests issued to a planning session in one behaviour

(***************************************************************************)
(* Program constants                                                       *)
(***************************************************************************)
MAX_Q_ITERS == 1
MAX_DEST_ITERS == 2
MAX_N == 6

(***************************************************************************)
(* Characters and Python string helpers                                    *)
(***************************************************************************)
Digits == {"0", "1", "2", "3", "4", "5", "6", "7", "8", "9"}
LowerLetters == {"a", "b", "c", "d", "e", "f", "g", "h", "i", "j", "k", "l", "m",
                 "n", "o", "p", "q", "r", "s", "t", "u", "v", "w", "x", "y", "z"}
UpperLetters == <<"A", "B", "C", "D", "E", "F", "G", "H", "I", "J", "K", "L", "M",
                  "N", "O", "P", "Q", "R", "S", "T", "U", "V", "W", "X", "Y", "Z">>
LowerOf == <<"a", "b", "c", "d", "e", "f", "g", "h", "i", "j", "k", "l", "m",
             "n", "o", "p", "q", "r", "s", "t", "u", "v", "w", "x", "y", "z">>
UpperToLower == [c \in {UpperLetters[i] : i \in 1..26} |->
                   LowerOf[CHOOSE i \in 1..26 : UpperLetters[i] = c]]

IsSpace(c) == c \in {" ", "\t"}
IsDigit(c) == c \in Digits

\* str.lower() on one character
lower_char(c) == IF c \in DOMAIN UpperToLower THEN UpperToLower[c] ELSE c

\* str.lower()
lower(s) == [i \in 1..Len(s) |-> lower_char(s[i])]

\* index of the first non-whitespace character at or after k (Len(s)+1 if none)
FirstNonSpaceFrom(s, k) ==
    CHOOSE i \in k..(Len(s) + 1) :
        /\ (i = Len(s) + 1 \/ ~IsSpace(s[i]))
        /\ \A j \in k..(i - 1) : IsSpace(s[j])

\* index of the last non-whitespace character (0 if none)
LastNonSpace(s) ==
    CHOOSE i \in 0..Len(s) :
        /\ (i = 0 \/ ~IsSpace(s[i]))
        /\ \A j \in (i + 1)..Len(s) : IsSpace(s[j])

\* index just past the run of digits starting at k
DigitsEndFrom(s, k) ==
    CHOOSE i \in k..(Len(s) + 1) :
        /\ (i = Len(s) + 1 \/ ~IsDigit(s[i]))
        /\ \A j \in k..(i - 1) : IsDigit(s[j])

\* str.strip()
strip(s) == SubSeq(s, FirstNonSpaceFrom(s, 1), LastNonSpace(s))

\* str.endswith("?")
EndsWithQ(s) == Len(s) > 0 /\ s[Len(s)] = "?"

\* "sub in s" for a one-character sub
HasChar(s, c) == \E i \in 1..Len(s) : s[i] = c

\* a is a prefix of b
IsPrefix(a, b) == Len(a) <= Len(b) /\ SubSeq(b, 1, Len(a)) = a

\* the elements of a sequence
Range(s) == {s[i] : i \in 1..Len(s)}

\* the members of a finite set of indices, in increasing order
SortedIdx(S) ==
    [k \in 1..Cardinality(S) |-> CHOOSE i \in S : Cardinality({j \in S : j < i}) = k - 1]

(***************************************************************************)
(* 4) Parsers & light prechecks                                            *)
(***************************************************************************)
\* _Q_LINE with group 2 as (.+): no '?' required before the end of the line
Q_LINE_AnyText(line) ==
    LET i0 == FirstNonSpaceFrom(line, 1)
        d1 == DigitsEndFrom(line, i0)
        w0 == d1 + 1
        w1 == FirstNonSpaceFrom(line, w0)
        last == LastNonSpace(line)
    IN  IF /\ d1 > i0
           /\ d1 <= Len(line)
           /\ line[d1] = "."
           /\ w0 <= Len(line)
           /\ w1 > w0
           /\ last >= w1
        THEN <<w1, last>>
        ELSE <<0, 0>>

\* _Q_LINE = ^\s*(\d+)\.\s+(.+?\?)\s*$ : the span of group 2 in the line,
\* <<first, last>>, or <<0, 0>> when the line does not match.  Group 2 ends at
\* the last non-blank character, which must be '?'; it starts after the
\* whitespace following the dot, and takes back one whitespace character when
\* nothing but the '?' is left (".+?" needs one character before "\?").
Q_LINE(line) ==
    LET i0 == FirstNonSpaceFrom(line, 1)
        d1 == DigitsEndFrom(line, i0)
        w0 == d1 + 1
        w1 == FirstNonSpaceFrom(line, w0)
        last == LastNonSpace(line)
    IN  IF /\ d1 > i0
           /\ d1 <= Len(line)
           /\ line[d1] = "."
           /\ w0 <= Len(line)
           /\ w1 > w0
           /\ last >= w1
           /\ line[last] = "?"
        THEN IF last > w1 THEN <<w1, last>>
             ELSE IF w1 - w0 >= 2 THEN <<w1 - 1, last>>
             ELSE <<0, 0>>
        ELSE <<0, 0>>

\* m.group(2).strip() of every matching line, in order
MatchedQuestions(text) ==
    LET idx == SortedIdx({i \in 1..Len(text) : Q_LINE(text[i]) # <<0, 0>>})
    IN  [k \in 1..Len(idx) |->
            strip(SubSeq(text[idx[k]], Q_LINE(text[idx[k]])[1], Q_LINE(text[idx[k]])[2]))]

\* the de-dup keyed on q instead of q.lower()
DedupLower_CaseSensitive(qs) ==
    LET idx == SortedIdx({i \in 1..Len(qs) : \A j \in 1..(i - 1) : qs[j] # qs[i]})
    IN  [k \in 1..Len(idx) |-> qs[idx[k]]]

\* de-dup, preserve order: keep q unless an earlier entry has the same lower()
DedupLower(qs) ==
    LET idx == SortedIdx({i \in 1..Len(qs) : \A j \in 1..(i - 1) : lower(qs[j]) # lower(qs[i])})
    IN  [k \in 1..Len(idx) |-> qs[idx[k]]]

\* out[:max_n]
Truncate(s, n) == SubSeq(s, 1, IF Len(s) < n THEN Len(s) ELSE n)

\* parse_questions returning out instead of out[:max_n]
parse_questions_Untruncated(text, max_n) == DedupLower(MatchedQuestions(text))

parse_questions(text, max_n) == Truncate(DedupLower(MatchedQuestions(text)), max_n)

\* re.sub(r"[^a-z0-9 ]+", "", q.lower())
Normalize(q) ==
    LET l == lower(q)
        idx == SortedIdx({i \in 1..Len(l) : l[i] \in LowerLetters \cup Digits \cup {" "}})
    IN  [k \in 1..Len(idx) |-> l[idx[k]]]

\* the spans <<i, j>> of the maximal runs of non-whitespace characters of s
WordSpans(s) ==
    {<<i, j>> \in (1..Len(s)) \X (1..Len(s)) :
        /\ i <= j
        /\ \A k \in i..j : ~IsSpace(s[k])
        /\ (i = 1 \/ IsSpace(s[i - 1]))
        /\ (j = Len(s) \/ IsSpace(s[j + 1]))}

\* set(s.split())
WordSet(s) == {SubSeq(s, sp[1], sp[2]) : sp \in WordSpans(s)}

\* len(s.split())
WordCount(s) == Cardinality(WordSpans(s))

\* Redundant comparing with >= 0.7 where the code has > 0.7
Redundant_AtLeast(qa, qb) ==
    LET ai == WordSet(Normalize(qa))
        aj == WordSet(Normalize(qb))
        u == Cardinality(ai \cup aj)
    IN  /\ ai # {}
        /\ aj # {}
        /\ 10 * Cardinality(ai \cap aj) >= 7 * (IF u < 1 THEN 1 ELSE u)

\* Redundant with the threshold 0.5 where the code has 0.7
Redundant_Half(qa, qb) ==
    LET ai == WordSet(Normalize(qa))
        aj == WordSet(Normalize(qb))
        u == Cardinality(ai \cup aj)
    IN  /\ ai # {}
        /\ aj # {}
        /\ 10 * Cardinality(ai \cap aj) >= 5 * (IF u < 1 THEN 1 ELSE u)

\* len(ai & aj) / max(1, len(ai | aj)) > 0.7, in tenths
Redundant(qa, qb) ==
    LET ai == WordSet(Normalize(qa))
        aj == WordSet(Normalize(qb))
        u == Cardinality(ai \cup aj)
    IN  /\ ai # {}
        /\ aj # {}
        /\ 10 * Cardinality(ai \cap aj) > 7 * (IF u < 1 THEN 1 ELSE u)

precheck_questions(qs) ==
    IF qs = <<>> THEN <<"No parseable questions.">>
    ELSE (IF Len(qs) > 6 THEN <<"More than 6 questions.">> ELSE <<>>)
         \o (IF \E i \in 1..Len(qs) : ~EndsWithQ(qs[i])
             THEN <<"All questions must end with '?'.">> ELSE <<>>)
         \o (IF \E i \in 1..Len(qs) : \E j \in (i + 1)..Len(qs) : Redundant(qs[i], qs[j])
             THEN <<"Questions are redundant; merge similar ones.">> ELSE <<>>)

\* text.strip() on a text held as lines: blank lines at both ends go, the
\* first line loses its leading and the last line its trailing whitespace
StripText(text) ==
    LET nonblank == {i \in 1..Len(text) : strip(text[i]) # <<>>}
    IN  IF nonblank = {} THEN <<>>
        ELSE LET a == CHOOSE i \in nonblank : \A j \in nonblank : i <= j
                 b == CHOOSE i \in nonblank : \A j \in nonblank : j <= i
             IN  [k \in 1..(b - a + 1) |->
                    LET ln == text[a + k - 1]
                        from == IF k = 1 THEN FirstNonSpaceFrom(ln, 1) ELSE 1
                        to == IF k = b - a + 1 THEN LastNonSpace(ln) ELSE Len(ln)
                    IN  SubSeq(ln, from, to)]

\* index of the '.' of a leading "<digits>." of the line (after optional
\* whitespace), or 0
NumberDot(line) ==
    LET i0 == FirstNonSpaceFrom(line, 1)
        d1 == DigitsEndFrom(line, i0)
    IN  IF d1 > i0 /\ d1 <= Len(line) /\ line[d1] = "." THEN d1 ELSE 0

\* re.split(r"\n\s*(?=\d+\.\s)", ...): line i (i > 1) opens a new block when,
\* after its leading whitespace, it starts with digits, '.', and a whitespace
\* character (the newline that ends the line counts when a line follows)
OpensBlock(lines, i) ==
    LET d == NumberDot(lines[i])
    IN  /\ i > 1
        /\ d > 0
        /\ IF d < Len(lines[i]) THEN IsSpace(lines[i][d + 1]) ELSE i < Len(lines)

\* the blocks as <<first line, last line>> spans, in order
BlockSpans(lines) ==
    LET starts == {1} \cup {i \in 1..Len(lines) : OpensBlock(lines, i)}
        st == SortedIdx(starts)
    IN  [k \in 1..Len(st) |->
            <<st[k], IF k = Len(st) THEN Len(lines) ELSE st[k + 1] - 1>>]

\* " ".join(lines)
RECURSIVE JoinSpace(_)
JoinSpace(ls) ==
    IF ls = <<>> THEN <<>>
    ELSE IF Len(ls) = 1 THEN ls[1]
    ELSE ls[1] \o <<" ">> \o JoinSpace(Tail(ls))

\* BlockItem without the "," test on the title
BlockItem_NoCommaCheck(lines, span) ==
    LET d == NumberDot(lines[span[1]])
        first == lines[span[1]]
        bodyRaw == [k \in 1..(span[2] - span[1] + 1) |->
                      IF k = 1 THEN SubSeq(first, d + 1, Len(first))
                      ELSE lines[span[1] + k - 1]]
        idx == SortedIdx({k \in 1..Len(bodyRaw) : strip(bodyRaw[k]) # <<>>})
        ls == [k \in 1..Len(idx) |-> strip(bodyRaw[idx[k]])]
    IN  IF d = 0 \/ ls = <<>> THEN <<>>
        ELSE <<[title |-> ls[1], details |-> strip(JoinSpace(Tail(ls)))]>>

\* one block of parse_destinations: re.match(r"^\s*\d+\.\s*(.+)$", block, re.S),
\* body lines stripped and non-empty; <<>> when the block is skipped, else a
\* one-element list with the item
BlockItem(lines, span) ==
    LET d == NumberDot(lines[span[1]])
        first == lines[span[1]]
        bodyRaw == [k \in 1..(span[2] - span[1] + 1) |->
                      IF k = 1 THEN SubSeq(first, d + 1, Len(first))
                      ELSE lines[span[1] + k - 1]]
        idx == SortedIdx({k \in 1..Len(bodyRaw) : strip(bodyRaw[k]) # <<>>})
        ls == [k \in 1..Len(idx) |-> strip(bodyRaw[idx[k]])]
    IN  IF d = 0 \/ ls = <<>> THEN <<>>
        ELSE IF ~HasChar(ls[1], ",") THEN <<>>
        ELSE <<[title |-> ls[1], details |-> strip(JoinSpace(Tail(ls)))]>>

RECURSIVE ConcatAll(_)
ConcatAll(ss) == IF ss = <<>> THEN <<>> ELSE ss[1] \o ConcatAll(Tail(ss))

\* parse_destinations returning items instead of items[:3]
parse_destinations_Untruncated(text) ==
    LET lines == StripText(text)
        spans == IF lines = <<>> THEN <<>> ELSE BlockSpans(lines)
    IN  ConcatAll([k \in 1..Len(spans) |-> BlockItem(lines, spans[k])])

parse_destinations(text) ==
    LET lines == StripText(text)
        spans == IF lines = <<>> THEN <<>> ELSE BlockSpans(lines)
        items == ConcatAll([k \in 1..Len(spans) |-> BlockItem(lines, spans[k])])
    IN  Truncate(items, 3)

\* it["title"].split(",")[0].strip().lower()
City(title) ==
    LET commas == {i \in 1..Len(title) : title[i] = ","}
        cut == IF commas = {} THEN Len(title) + 1
               ELSE CHOOSE i \in commas : \A j \in commas : i <= j
    IN  lower(strip(SubSeq(title, 1, cut - 1)))

\* precheck_destinations without the break: one issue for every short
\* justification
precheck_destinations_NoBreak(items) ==
    IF Len(items) # 3 THEN <<"Did not produce exactly 3 destinations.">>
    ELSE (IF Cardinality({City(items[i].title) : i \in 1..3}) < 3
          THEN <<"Duplicate city detected; ensure three distinct cities.">> ELSE <<>>)
         \o LET short == SelectSeq(<<1, 2, 3>>, LAMBDA i : WordCount(items[i].details) < 5)
            IN  [i \in 1..Len(short) |-> "Justification too short/generic."]

\* precheck_destinations without the justification-length check
precheck_destinations_NoLengthCheck(items) ==
    IF Len(items) # 3 THEN <<"Did not produce exactly 3 destinations.">>
    ELSE IF Cardinality({City(items[i].title) : i \in 1..3}) < 3
         THEN <<"Duplicate city detected; ensure three distinct cities.">> ELSE <<>>

\* precheck_destinations without the distinct-city check
precheck_destinations_NoCityCheck(items) ==
    IF Len(items) # 3 THEN <<"Did not produce exactly 3 destinations.">>
    ELSE IF \E i \in 1..3 : WordCount(items[i].details) < 5
         THEN <<"Justification too short/generic.">> ELSE <<>>

precheck_destinations(items) ==
    IF Len(items) # 3 THEN <<"Did not produce exactly 3 destinations.">>
    ELSE (IF Cardinality({City(items[i].title) : i \in 1..3}) < 3
          THEN <<"Duplicate city detected; ensure three distinct cities.">> ELSE <<>>)
         \o (IF \E i \in 1..3 : WordCount(items[i].details) < 5
             THEN <<"Justification too short/generic.">> ELSE <<>>)

(***************************************************************************)
(* Evaluator replies.  A reply is a sequence of tokens: "{" and "}", other *)
(* text, and the members of a JSON object.                                 *)
(***************************************************************************)
LBrace == [t |-> "{", key |-> "", grade |-> "", notes |-> <<>>]
RBrace == [t |-> "}", key |-> "", grade |-> "", notes |-> <<>>]
Prose == [t |-> "prose", key |-> "", grade |-> "", notes |-> <<>>]
Grade(g) == [t |-> "member", key |-> "grade", grade |-> g, notes |-> <<>>]
Notes(n) == [t |-> "member", key |-> "improvement_notes", grade |-> "", notes |-> n]

\* extract_json: <<start, end>> of s[start : end + 1], or <<0, 0>> for ValueError
extract_json(s) ==
    LET opens == {i \in 1..Len(s) : s[i].t = "{"}
        closes == {i \in 1..Len(s) : s[i].t = "}"}
    IN  IF opens = {} \/ closes = {} THEN <<0, 0>>
        ELSE LET start == CHOOSE i \in opens : \A j \in opens : i <= j
                 end == CHOOSE i \in closes : \A j \in closes : j <= i
             IN  IF end <= start THEN <<0, 0>> ELSE <<start, end>>

\* EvaluatorData whose except branch falls back to a passing grade
EvaluatorData_PassOnError(reply) ==
    LET span == extract_json(reply)
        inner == SubSeq(reply, span[1] + 1, span[2] - 1)
    IN  IF span = <<0, 0>> \/ \E i \in 1..Len(inner) : inner[i].t # "member"
        THEN <<Grade("pass"), Notes(<< <<"Evaluator returned non-JSON.">> >>)>>
        ELSE inner

\* json.loads(extract_json(msg.content)) with the except branch: the members
\* of the object, or the fallback data when either step raises
EvaluatorData(reply) ==
    LET span == extract_json(reply)
        inner == SubSeq(reply, span[1] + 1, span[2] - 1)
    IN  IF span = <<0, 0>> \/ \E i \in 1..Len(inner) : inner[i].t # "member"
        THEN <<Grade("fail"), Notes(<< <<"Evaluator returned non-JSON.">> >>)>>
        ELSE inner

\* data.get(key): the last member with that key decides, None when absent
DataHas(data, key) == \E i \in 1..Len(data) : data[i].key = key
DataGet(data, key) ==
    data[CHOOSE i \in 1..Len(data) :
            data[i].key = key /\ \A j \in (i + 1)..Len(data) : data[j].key # key]

\* grade = "pass" if data.get("grade") == "pass" else "fail"
GradeOf(data) ==
    IF DataHas(data, "grade") /\ DataGet(data, "grade").grade = "pass" THEN "pass" ELSE "fail"

\* notes = data.get("improvement_notes") or default
NotesOf(data, default) ==
    IF DataHas(data, "improvement_notes") /\ DataGet(data, "improvement_notes").notes # <<>>
    THEN DataGet(data, "improvement_notes").notes
    ELSE default

(***************************************************************************)
(* The LLM gateway (llm.invoke) is an external collaborator: every call    *)
(* returns one of the texts below, chosen nondeterministically.            *)
(***************************************************************************)
DigitChar == <<"1", "2", "3", "4", "5", "6", "7", "8", "9">>
QLetters == <<"a", "b", "c", "d", "e", "f", "g", "h", "i">>

\* "1. a?" ... one conforming, distinct question per line, MaxLines lines
QT_Many == [i \in 1..MaxLines |-> <<DigitChar[i], ".", " ", QLetters[i], "?">>]
\* the second question repeats the first in another case
QT_Dup ==
    << <<"1", ".", " ", "a", "?">>,
       <<"2", ".", " ", "A", "?">>,
       <<"3", ".", " ", "b", "?">> >>
\* padded, unnumbered, unterminated and degenerate lines
QT_Messy ==
    << <<" ", " ", "2", ".", " ", "b", "?", " ">>,
       <<"1", ".", "a", "?">>,
       <<"1", ".", " ", "a">>,
       <<"a", "?">>,
       <<"1", ".", " ", " ", "?">> >>
\* two questions sharing 3 of 4 words
QT_Redundant ==
    << <<"1", ".", " ", "a", " ", "b", " ", "c", "?">>,
       <<"2", ".", " ", "a", " ", "b", " ", "c", " ", "d", "?">> >>
\* two questions sharing 7 of their 10 words
QT_Seventy ==
    << <<"1", ".", " ", "a", " ", "b", " ", "c", " ", "d", " ", "e", " ", "f", " ", "g", " ",
         "h", "?">>,
       <<"2", ".", " ", "a", " ", "b", " ", "c", " ", "d", " ", "e", " ", "f", " ", "g", " ",
         "i", " ", "j", "?">> >>
\* "1. Budget?\n2. Budget range?\n3. How long?\n"
QT_Budget ==
    << <<"1", ".", " ", "B", "u", "d", "g", "e", "t", "?">>,
       <<"2", ".", " ", "B", "u", "d", "g", "e", "t", " ", "r", "a", "n", "g", "e", "?">>,
       <<"3", ".", " ", "H", "o", "w", " ", "l", "o", "n", "g", "?">> >>
\* no numbered line at all
QT_None ==
    << <<"s", "o", "r", "r", "y">> >>
\* a single conforming question
QT_One ==
    << <<"1", ".", " ", "a", "?">> >>

QuestionTexts ==
    {QT_Many, QT_Dup, QT_Messy, QT_Redundant, QT_Seventy, QT_Budget, QT_None, QT_One, <<>>}

\* three distinct cities, five-word justifications
DT_Good ==
    << <<"1", ".", " ", "P", ",", " ", "F">>,
       <<"a", " ", "b", " ", "c", " ", "d", " ", "e">>,
       <<"2", ".", " ", "T", ",", " ", "J">>,
       <<"a", " ", "b", " ", "c", " ", "d", " ", "e">>,
       <<"3", ".", " ", "L", ",", " ", "P">>,
       <<"a", " ", "b", " ", "c", " ", "d", " ", "e">> >>
\* a preface and four blocks
DT_Four ==
    << <<"H", "e", "r", "e", ":">>,
       <<"1", ".", " ", "P", ",", " ", "F">>,
       <<"a", " ", "b", " ", "c", " ", "d", " ", "e">>,
       <<>>,
       <<" ", "2", ".", " ", "T", ",", " ", "J">>,
       <<"a", " ", "b">>,
       <<"c", " ", "d", " ", "e">>,
       <<"3", ".">>,
       <<"L", ",", " ", "P">>,
       <<"a", " ", "b", " ", "c", " ", "d", " ", "e">>,
       <<"4", ".", " ", "H", ",", " ", "G">>,
       <<"a", " ", "b", " ", "c", " ", "d", " ", "e">> >>
\* the second city repeats the first in another case
DT_DupCity ==
    << <<"1", ".", " ", "P", ",", " ", "F">>,
       <<"a", " ", "b", " ", "c", " ", "d", " ", "e">>,
       <<"2", ".", " ", "p", ",", " ", "G">>,
       <<"a", " ", "b", " ", "c", " ", "d", " ", "e">>,
       <<"3", ".", " ", "T", ",", " ", "J">>,
       <<"a", " ", "b", " ", "c", " ", "d", " ", "e">> >>
\* a two-word justification
DT_Short ==
    << <<"1", ".", " ", "P", ",", " ", "F">>,
       <<"a", " ", "b", " ", "c", " ", "d", " ", "e">>,
       <<"2", ".", " ", "T", ",", " ", "J">>,
       <<"a", " ", "b">>,
       <<"3", ".", " ", "L", ",", " ", "P">>,
       <<"a", " ", "b", " ", "c", " ", "d", " ", "e">> >>
\* the second title has no comma
DT_Two ==
    << <<"1", ".", " ", "P", ",", " ", "F">>,
       <<"a", " ", "b", " ", "c", " ", "d", " ", "e">>,
       <<"2", ".", " ", "T", " ", "J">>,
       <<"a", " ", "b", " ", "c", " ", "d", " ", "e">>,
       <<"3", ".", " ", "L", ",", " ", "P">>,
       <<"a", " ", "b", " ", "c", " ", "d", " ", "e">> >>
\* the first number stands alone on its line, the title follows on the next
DT_Bare ==
    << <<"1", ".">>,
       <<"P", ",", " ", "F">>,
       <<"a", " ", "b", " ", "c", " ", "d", " ", "e">>,
       <<"2", ".", " ", "T", ",", " ", "J">>,
       <<"a", " ", "b", " ", "c", " ", "d", " ", "e">>,
       <<"3", ".", " ", "L", ",", " ", "P">>,
       <<"a", " ", "b", " ", "c", " ", "d", " ", "e">> >>
\* "1. Paris, France\nCity of lights, great food.\n2. Tokyo, Japan\nModern and
\* historic.\n3. Lima, Peru\nAndean cuisine and coast."
DT_Scenario ==
    << <<"1", ".", " ", "P", "a", "r", "i", "s", ",", " ", "F", "r", "a", "n", "c", "e">>,
       <<"C", "i", "t", "y", " ", "o", "f", " ", "l", "i", "g", "h", "t", "s", ",", " ",
         "g", "r", "e", "a", "t", " ", "f", "o", "o", "d", ".">>,
       <<"2", ".", " ", "T", "o", "k", "y", "o", ",", " ", "J", "a", "p", "a", "n">>,
       <<"M", "o", "d", "e", "r", "n", " ", "a", "n", "d", " ", "h", "i", "s", "t", "o",
         "r", "i", "c", ".">>,
       <<"3", ".", " ", "L", "i", "m", "a", ",", " ", "P", "e", "r", "u">>,
       <<"A", "n", "d", "e", "a", "n", " ", "c", "u", "i", "s", "i", "n", "e", " ", "a",
         "n", "d", " ", "c", "o", "a", "s", "t", ".">> >>
\* no numbered block at all
DT_None ==
    << <<"s", "o", "r", "r", "y">> >>

DestinationTexts == {DT_Good, DT_Four, DT_DupCity, DT_Short, DT_Two, DT_Scenario, DT_None}

\* a note is a string, held as the sequence of its pieces
Note1 == <<"n1">>

EvaluatorReplies ==
    { <<Prose>>,
      <<RBrace, Prose, LBrace>>,
      <<LBrace, Prose, RBrace>>,
      <<Prose, LBrace, Grade("pass"), RBrace, Prose>>,
      <<LBrace, Grade("pass"), Notes(<<Note1>>), RBrace>>,
      <<LBrace, Grade("fail"), Notes(<<Note1>>), RBrace>>,
      <<LBrace, Grade("PASS"), RBrace>>,
      <<LBrace, Notes(<<>>), RBrace>> }

\* the user's first message and answers (with surrounding whitespace)
InitialMessages == { <<" ", "g", "o", " ">> }
Answers == { <<" ", "y">>, <<"n">> }

\* the smaller gateway of the specification that runs both phases
FewQuestionTexts == {QT_Dup, QT_None}
ChatQuestionTexts == {QT_Many, QT_Dup, QT_None}
OneAnswer == { <<" ", "y">> }

(***************************************************************************)
(* 3) Graph state                                                          *)
(***************************************************************************)
\* the State dict; an absent key is held as the value .get() defaults it to
NewState(info) ==
    [info |-> info, feedback |-> <<>>, question_queue |-> <<>>, destinations |-> <<>>,
     question_iteration |-> 0, qe_grade |-> "none", qe_notes |-> <<>>,
     dest_iteration |-> 0, dest_grade |-> "none", dest_notes |-> <<>>,
     question_history |-> <<>>]

\* f"Heuristic: {x}" for every issue
HeuristicNotes(issues) == [i \in 1..Len(issues) |-> <<"Heuristic: ", issues[i]>>]

\* "- " + "\n- ".join(notes)
RECURSIVE JoinNotes(_)
JoinNotes(notes) ==
    IF notes = <<>> THEN <<>>
    ELSE IF Len(notes) = 1 THEN notes[1]
    ELSE notes[1] \o <<"\n- ">> \o JoinNotes(Tail(notes))

Refinement(notes) == <<"- ">> \o JoinNotes(notes)

(***************************************************************************)
(* 5) Question graph: generator -> evaluator -> (opt? -> generator) -> END *)
(***************************************************************************)
question_generator(st, text) ==
    [st EXCEPT !.feedback = text, !.question_queue = parse_questions(text, MAX_N)]

\* the evaluator spends an llm.invoke only when the precheck finds no issue
QuestionEvaluatorInvokes(st) == precheck_questions(st.question_queue) = <<>>

\* question_evaluator that takes the gateway's grade whatever the precheck says
question_evaluator_GradesAnyway(st, reply) ==
    LET issues == precheck_questions(st.question_queue)
        data == EvaluatorData(reply)
    IN  [st EXCEPT !.qe_grade = GradeOf(data),
                   !.qe_notes = IF issues # <<>> THEN HeuristicNotes(issues)
                                ELSE NotesOf(data, << <<"Be more specific, remove redundancy.">> >>)]

question_evaluator(st, reply) ==
    LET issues == precheck_questions(st.question_queue)
        data == EvaluatorData(reply)
    IN  IF issues # <<>>
        THEN [st EXCEPT !.qe_grade = "fail", !.qe_notes = HeuristicNotes(issues)]
        ELSE [st EXCEPT !.qe_grade = GradeOf(data),
                        !.qe_notes = NotesOf(data, << <<"Be more specific, remove redundancy.">> >>)]

question_optimizer(st) ==
    [st EXCEPT !.question_iteration = st.question_iteration + 1,
               !.info = st.info \o <<"\nREFINEMENT_FOR_QUESTIONS:\n">> \o Refinement(st.qe_notes)]

\* route_after_q_eval comparing with <= where the code has <
route_after_q_eval_OffByOne(st) ==
    IF st.qe_grade = "pass" THEN "end"
    ELSE IF st.question_iteration <= MAX_Q_ITERS THEN "optimize"
    ELSE "end"

route_after_q_eval(st) ==
    IF st.qe_grade = "pass" THEN "end"
    ELSE IF st.question_iteration < MAX_Q_ITERS THEN "optimize"
    ELSE "end"

(***************************************************************************)
(* 6) Destination graph                                                    *)
(***************************************************************************)
destination_generator(st, text) == [st EXCEPT !.destinations = text]

DestinationEvaluatorInvokes(st) ==
    precheck_destinations(parse_destinations(st.destinations)) = <<>>

\* destination_evaluator that evaluates only the first generation and keeps
\* that grade and those notes afterwards
destination_evaluator_KeepsFirst(st, reply) ==
    LET issues == precheck_destinations(parse_destinations(st.destinations))
        data == EvaluatorData(reply)
    IN  IF st.dest_grade # "none" THEN st
        ELSE IF issues # <<>>
        THEN [st EXCEPT !.dest_grade = "fail", !.dest_notes = HeuristicNotes(issues)]
        ELSE [st EXCEPT !.dest_grade = GradeOf(data),
                        !.dest_notes =
                            NotesOf(data, << <<"Increase specificity and align with constraints.">> >>)]

destination_evaluator(st, reply) ==
    LET issues == precheck_destinations(parse_destinations(st.destinations))
        data == EvaluatorData(reply)
    IN  IF issues # <<>>
        THEN [st EXCEPT !.dest_grade = "fail", !.dest_notes = HeuristicNotes(issues)]
        ELSE [st EXCEPT !.dest_grade = GradeOf(data),
                        !.dest_notes =
                            NotesOf(data, << <<"Increase specificity and align with constraints.">> >>)]

\* destination_optimizer assigning the refinement to info instead of appending
destination_optimizer_Replace(st) ==
    [st EXCEPT !.dest_iteration = st.dest_iteration + 1,
               !.info = <<"\nREFINEMENT_FOR_DESTINATIONS:\n">> \o Refinement(st.dest_notes)]

destination_optimizer(st) ==
    [st EXCEPT !.dest_iteration = st.dest_iteration + 1,
               !.info = st.info \o <<"\nREFINEMENT_FOR_DESTINATIONS:\n">> \o Refinement(st.dest_notes)]

\* route_after_dest_eval comparing with <= where the code has <
route_after_dest_eval_OffByOne(st) ==
    IF st.dest_grade = "pass" THEN "end"
    ELSE IF st.dest_iteration <= MAX_DEST_ITERS THEN "regen"
    ELSE "end"

route_after_dest_eval(st) ==
    IF st.dest_grade = "pass" THEN "end"
    ELSE IF st.dest_iteration < MAX_DEST_ITERS THEN "regen"
    ELSE "end"

(***************************************************************************)
(* 7) Public API: WorkflowManager                                          *)
(***************************************************************************)
\* get_next_question returning the last question of the queue
get_next_question_Last(st) ==
    IF st.question_queue # <<>> THEN <<st.question_queue[Len(st.question_queue)]>> ELSE <<>>

\* get_next_question: the head of the queue, or <<>> for None
get_next_question(st) == IF st.question_queue # <<>> THEN <<st.question_queue[1]>> ELSE <<>>

\* process_clarification_answer with queue.pop() where the code has queue.pop(0)
process_clarification_answer_PopLast(st, answer) ==
    IF st.question_queue = <<>> THEN st
    ELSE LET q == st.question_queue[Len(st.question_queue)]
             ans == strip(answer)
         IN  [st EXCEPT !.info = st.info \o <<"\nQ: ">> \o q \o <<"\nA: ">> \o ans,
                        !.question_queue = SubSeq(st.question_queue, 1, Len(st.question_queue) - 1),
                        !.question_history = Append(st.question_history, [q |-> q, a |-> ans])]

process_clarification_answer(st, answer) ==
    IF st.question_queue = <<>> THEN st
    ELSE LET q == Head(st.question_queue)
             ans == strip(answer)
         IN  [st EXCEPT !.info = st.info \o <<"\nQ: ">> \o q \o <<"\nA: ">> \o ans,
                        !.question_queue = Tail(st.question_queue),
                        !.question_history = Append(st.question_history, [q |-> q, a |-> ans])]

\* the return value of the last API call: call names it, kind is "none" while
\* it runs, then "state", "error" or "success"
NoResult ==
    [call |-> "none", kind |-> "none", next_question |-> <<>>, grade |-> "none", destinations |-> <<>>,
     notes |-> <<>>, raw |-> <<>>, iterations |-> 0]

\* the error payload naming the last pending question instead of the next
FinalizeError_Last(st) ==
    [NoResult EXCEPT !.kind = "error", !.next_question = st.question_queue[Len(st.question_queue)]]

\* the {"error": ..., "next_question": ...} payload
FinalizeError(st) == [NoResult EXCEPT !.kind = "error", !.next_question = st.question_queue[1]]

\* the success payload built from the state the destination graph returns
FinalizePayload(st) ==
    [NoResult EXCEPT !.kind = "success",
                     !.grade = IF st.dest_grade = "none" THEN "fail" ELSE st.dest_grade,
                     !.destinations = parse_destinations(st.destinations),
                     !.notes = st.dest_notes,
                     !.raw = st.destinations,
                     !.iterations = st.dest_iteration]

(***************************************************************************)
(* Engine specification: one workflow state driven through the public API. *)
(* A graph run (self._q_runner / self._d_runner) advances node by node.    *)
(***************************************************************************)
QuestionNodes == {"question_generator", "question_evaluator", "question_optimizer"}
DestinationNodes == {"destination_generator", "destination_evaluator", "destination_optimizer"}

\* the store is not touched by the engine
StoreInit ==
    /\ trip = [status |-> "planning", destination |-> <<>>]
    /\ conv = [exists |-> FALSE]
    /\ messages = <<>>
    /\ recs = <<>>
    /\ response = [status |-> 0]
    /\ requests = 0
    /\ SingleTrip

EngineInit ==
    /\ state = NewState(<<>>)
    /\ node = "new"
    /\ calls = 0
    /\ result = NoResult
    /\ StoreInit

\* process_initial_message: seed the state and enter the question graph
ProcessInitialMessage ==
    /\ node = "new"
    /\ \E info \in InitialMessages : state' = NewState(strip(info))
    /\ node' = "question_generator"
    /\ calls' = 0
    /\ result' = [NoResult EXCEPT !.call = "process_initial_message"]
    /\ UNCHANGED storeVars

\* question_generator, the gateway answering with one of texts
QuestionGenerator(texts) ==
    /\ node = "question_generator"
    /\ \E text \in texts : state' = question_generator(state, text)
    /\ calls' = calls + 1
    /\ node' = "question_evaluator"
    /\ UNCHANGED <<result, storeVars>>

\* question_evaluator, then the conditional edge route_after_q_eval; on "end"
\* process_initial_message returns dict(state)
QuestionEvaluator ==
    /\ node = "question_evaluator"
    /\ \E reply \in EvaluatorReplies : state' = question_evaluator(state, reply)
    /\ calls' = IF QuestionEvaluatorInvokes(state) THEN calls + 1 ELSE calls
    /\ IF route_after_q_eval(state') = "optimize"
       THEN node' = "question_optimizer" /\ UNCHANGED result
       ELSE node' = "idle" /\ result' = [result EXCEPT !.kind = "state"]
    /\ UNCHANGED storeVars

QuestionOptimizer ==
    /\ node = "question_optimizer"
    /\ state' = question_optimizer(state)
    /\ node' = "question_generator"
    /\ UNCHANGED <<calls, result, storeVars>>

ProcessClarificationAnswer(answers) ==
    /\ node = "idle"
    /\ \E answer \in answers : state' = process_clarification_answer(state, answer)
    /\ calls' = 0
    /\ result' = [NoResult EXCEPT !.call = "process_clarification_answer", !.kind = "state"]
    /\ UNCHANGED <<node, storeVars>>

\* finalize_recommendations: refuse while questions remain, else enter the
\* destination graph
FinalizeRecommendations ==
    /\ node = "idle"
    /\ calls' = 0
    /\ state' = state
    /\ IF state.question_queue # <<>>
       THEN /\ result' = [FinalizeError(state) EXCEPT !.call = "finalize_recommendations"]
            /\ node' = "idle"
       ELSE /\ result' = [NoResult EXCEPT !.call = "finalize_recommendations"]
            /\ node' = "destination_generator"
    /\ UNCHANGED storeVars

DestinationGenerator ==
    /\ node = "destination_generator"
    /\ \E text \in DestinationTexts : state' = destination_generator(state, text)
    /\ calls' = calls + 1
    /\ node' = "destination_evaluator"
    /\ UNCHANGED <<result, storeVars>>

\* destination_evaluator, then route_after_dest_eval; on "end"
\* finalize_recommendations builds its payload from the returned state
DestinationEvaluator ==
    /\ node = "destination_evaluator"
    /\ \E reply \in EvaluatorReplies : state' = destination_evaluator(state, reply)
    /\ calls' = IF DestinationEvaluatorInvokes(state) THEN calls + 1 ELSE calls
    /\ IF route_after_dest_eval(state') = "regen"
       THEN node' = "destination_optimizer" /\ UNCHANGED result
       ELSE /\ node' = "done"
            /\ result' = [FinalizePayload(state') EXCEPT !.call = "finalize_recommendations"]
    /\ UNCHANGED storeVars

DestinationOptimizer ==
    /\ node = "destination_optimizer"
    /\ state' = destination_optimizer(state)
    /\ node' = "destination_generator"
    /\ UNCHANGED <<calls, result, storeVars>>

\* the steps of a graph run in progress
GraphStep ==
    \/ QuestionGenerator(FewQuestionTexts)
    \/ QuestionEvaluator
    \/ QuestionOptimizer
    \/ DestinationGenerator
    \/ DestinationEvaluator
    \/ DestinationOptimizer

\* the whole life of one workflow state, from the first message to the
\* recommendations
EngineNext ==
    \/ ProcessInitialMessage
    \/ QuestionGenerator(FewQuestionTexts)
    \/ QuestionEvaluator
    \/ QuestionOptimizer
    \/ ProcessClarificationAnswer(OneAnswer)
    \/ FinalizeRecommendations
    \/ DestinationGenerator
    \/ DestinationEvaluator
    \/ DestinationOptimizer

EngineSpec == EngineInit /\ [][EngineNext]_vars

\* the graph runner executes a run to its END without suspending: weak
\* fairness of GraphStep, written with its enabling condition, which is that
\* a run is at one of the nodes
GraphNodes == QuestionNodes \cup DestinationNodes
FairEngineSpec == EngineSpec /\ (<>[](node \in GraphNodes) => []<><<GraphStep>>_vars)

\* the question phase alone, over every question text of the gateway
QuestionNext ==
    \/ ProcessInitialMessage
    \/ QuestionGenerator(QuestionTexts)
    \/ QuestionEvaluator
    \/ QuestionOptimizer
    \/ ProcessClarificationAnswer(Answers)

QuestionSpec == EngineInit /\ [][QuestionNext]_vars

(***************************************************************************)
(* destination_search/views.py: the request layer over the store           *)
(***************************************************************************)
NAME_LIMIT == 100
DESCRIPTION_LIMIT == 500
MAX_SECTIONS == 3

\* s[k:] / "sub in s"
DropFirst(s, n) == SubSeq(s, n + 1, Len(s))
Contains(s, sub) == \E i \in 1..(Len(s) - Len(sub) + 1) : SubSeq(s, i, i + Len(sub) - 1) = sub

\* "\n".join(lines)
RECURSIVE JoinLines(_)
JoinLines(ls) ==
    IF ls = <<>> THEN <<>>
    ELSE IF Len(ls) = 1 THEN ls[1]
    ELSE ls[1] \o <<"\n">> \o JoinLines(Tail(ls))

\* re.split(r"\n(?=\d+\.|\n)", text): a line opens a new section when it starts
\* with digits and '.', or is empty and followed by another line
OpensSection(lines, i) ==
    /\ i > 1
    /\ \/ (DigitsEndFrom(lines[i], 1) > 1
           /\ DigitsEndFrom(lines[i], 1) <= Len(lines[i])
           /\ lines[i][DigitsEndFrom(lines[i], 1)] = ".")
       \/ (lines[i] = <<>> /\ i < Len(lines))

SectionSpans(lines) ==
    LET st == SortedIdx({1} \cup {i \in 1..Len(lines) : OpensSection(lines, i)})
    IN  [k \in 1..Len(st) |->
            <<st[k], IF k = Len(st) THEN Len(lines) ELSE st[k + 1] - 1>>]

\* re.sub(r"^[\d\.\)\-\*\s]+", "", name).strip()
CleanName(name) ==
    LET i == CHOOSE i \in 1..(Len(name) + 1) :
                /\ (i = Len(name) + 1
                    \/ ~(IsDigit(name[i]) \/ IsSpace(name[i]) \/ name[i] \in {".", ")", "-", "*"}))
                /\ \A j \in 1..(i - 1) :
                      IsDigit(name[j]) \/ IsSpace(name[j]) \/ name[j] \in {".", ")", "-", "*"}
    IN  strip(DropFirst(name, i - 1))

\* name.split(",")
RECURSIVE SplitComma(_)
SplitComma(s) ==
    LET commas == {i \in 1..Len(s) : s[i] = ","}
    IN  IF commas = {} THEN <<s>>
        ELSE LET c == CHOOSE i \in commas : \A j \in commas : i <= j
             IN  <<SubSeq(s, 1, c - 1)>> \o SplitComma(DropFirst(s, c))

\* one section of views.parse_destinations: <<>> for a blank section, else the
\* record in a one-element list
SectionRecord(lines, span) ==
    LET ls == StripText(SubSeq(lines, span[1], span[2]))
        name == CleanName(ls[1])
        parts == SplitComma(name)
    IN  IF ls = <<>> THEN <<>>
        ELSE <<[name |-> Truncate(IF HasChar(name, ",") THEN strip(parts[1]) ELSE name,
                                  NAME_LIMIT),
                country |-> Truncate(IF HasChar(name, ",") THEN strip(parts[2]) ELSE <<>>,
                                     NAME_LIMIT),
                description |-> Truncate(JoinLines(Tail(ls)), DESCRIPTION_LIMIT)]>>

\* while len(destinations) < 3: append "Option n"
RECURSIVE PadOptions(_)
PadOptions(ds) ==
    IF Len(ds) >= MAX_SECTIONS THEN ds
    ELSE PadOptions(Append(ds, [name |-> <<"O", "p", "t", "i", "o", "n", " ", DigitChar[Len(ds) + 1]>>,
                                country |-> <<>>,
                                description |-> <<"Additional destination option">>]))

\* views.parse_destinations without the padding loop
view_parse_destinations_Unpadded(text) ==
    LET spans == IF text = <<>> THEN <<>> ELSE Truncate(SectionSpans(text), MAX_SECTIONS)
        found == ConcatAll([k \in 1..Len(spans) |-> SectionRecord(text, spans[k])])
    IN  Truncate(found, MAX_SECTIONS)

\* views.parse_destinations
view_parse_destinations(text) ==
    LET spans == IF text = <<>> THEN <<>> ELSE Truncate(SectionSpans(text), MAX_SECTIONS)
        found == ConcatAll([k \in 1..Len(spans) |-> SectionRecord(text, spans[k])])
    IN  Truncate(PadOptions(found), MAX_SECTIONS)

commitment_phrases ==
    << <<"l", "e", "t", "'", "s", " ", "d", "o">>,
       <<"l", "e", "t", "'", "s", " ", "g", "o", " ", "w", "i", "t", "h">>,
       <<"i", " ", "w", "a", "n", "t", " ", "t", "o", " ", "p", "l", "a", "n">>,
       <<"b", "o", "o", "k">>,
       <<"p", "e", "r", "f", "e", "c", "t">>,
       <<"t", "h", "a", "t", "'", "s", " ", "t", "h", "e", " ", "o", "n", "e">>,
       <<"y", "e", "s", " ", "t", "o">>,
       <<"d", "e", "f", "i", "n", "i", "t", "e", "l", "y">>,
       <<"i", " ", "c", "h", "o", "o", "s", "e">>,
       <<"i", " ", "p", "i", "c", "k">>,
       <<"i", "'", "l", "l", " ", "t", "a", "k", "e">>,
       <<"s", "o", "u", "n", "d", "s", " ", "p", "e", "r", "f", "e", "c", "t">> >>

\* the fixed replies of the request layer
ThinkingText == <<"Let me think about some destinations for you...">>
StartOverText == <<"I'm not sure what happened. Let's start over - what kind of vacation are you looking for?">>
NoDestinationsText == <<"I don't see any destinations yet. Let me help you find some!">>
WhichOneText == <<"Great! Which of the three destinations would you like to go with? Just let me know the name or number (1, 2, or 3).">>
TellMoreText == <<"I'd be happy to tell you more about any of these destinations! Which one interests you most, or would you like me to suggest different options?">>
ExcellentText(name) == <<"Excellent choice! ">> \o name \o <<" it is! I've updated your trip. You're ready to move on to planning accommodations and activities!">>

\* the Trip row: status and destination (<<>> for None, else <<name>>)
NewTrip == [status |-> "planning", destination |-> <<>>]

\* TripConversation with its ConversationState, field defaults of models.py
NoConversation ==
    [exists |-> FALSE, id |-> 0, current_stage |-> "initial", user_info |-> <<>>,
     question_queue |-> <<>>, destinations_text |-> <<>>,
     questions_asked |-> 0, total_questions |-> 0]

NewConversation(id) == [NoConversation EXCEPT !.exists = TRUE, !.id = id]

\* ConversationState.WORKFLOW_STAGES, in declaration order
WORKFLOW_STAGES ==
    <<"initial", "generating_questions", "asking_clarifications",
      "generating_destinations", "destinations_complete", "commitment_detected">>

\* ConversationState.get_progress_percentage
get_progress_percentage(cs) ==
    IF cs.total_questions > 0 THEN (cs.questions_asked * 100) \div cs.total_questions ELSE 0

\* the first recommended location the message names, 0 when none
FirstNamed(locations, message_lower) ==
    LET named == {i \in 1..Len(locations) :
                    \/ Contains(message_lower, lower(locations[i].name))
                    \/ (locations[i].country # <<>>
                        /\ Contains(message_lower, lower(locations[i].country)))}
    IN  IF named = {} THEN 0 ELSE CHOOSE i \in named : \A j \in named : i <= j

\* handle_post_destination_message selecting a named destination whether or
\* not the message holds a commitment phrase
handle_post_destination_message_NoPhrase(message_text, rs, cs, tr) ==
    LET message_lower == lower(message_text)
        locations == rs[Len(rs)]
        k == FirstNamed(locations, message_lower)
    IN  IF rs = <<>> THEN [text |-> NoDestinationsText, trip |-> tr, conv |-> cs]
        ELSE IF k > 0
        THEN [text |-> ExcellentText(locations[k].name),
              trip |-> [tr EXCEPT !.destination = <<locations[k].name>>,
                                  !.status = "destinations_selected"],
              conv |-> [cs EXCEPT !.current_stage = "commitment_detected"]]
        ELSE [text |-> TellMoreText, trip |-> tr, conv |-> cs]

\* handle_post_destination_message: the reply text with the trip and the
\* conversation state it leaves
handle_post_destination_message(message_text, rs, cs, tr) ==
    LET message_lower == lower(message_text)
        locations == rs[Len(rs)]
        committed == \E i \in 1..Len(commitment_phrases) :
                        Contains(message_lower, commitment_phrases[i])
        k == FirstNamed(locations, message_lower)
    IN  IF rs = <<>> THEN [text |-> NoDestinationsText, trip |-> tr, conv |-> cs]
        ELSE IF committed /\ k > 0
        THEN [text |-> ExcellentText(locations[k].name),
              trip |-> [tr EXCEPT !.destination = <<locations[k].name>>,
                                  !.status = "destinations_selected"],
              conv |-> [cs EXCEPT !.current_stage = "commitment_detected"]]
        ELSE IF committed THEN [text |-> WhichOneText, trip |-> tr, conv |-> cs]
        ELSE [text |-> TellMoreText, trip |-> tr, conv |-> cs]

\* WorkflowManager.process_initial_message as one call: the question graph run
\* to its END, the gateway answering round k with oracle[k]
RECURSIVE RunQuestionGraph(_, _)
RunQuestionGraph(st, oracle) ==
    LET generated == question_generator(st, oracle[1].text)
        evaluated == question_evaluator(generated, oracle[1].reply)
    IN  IF route_after_q_eval(evaluated) = "optimize"
        THEN RunQuestionGraph(question_optimizer(evaluated), Tail(oracle))
        ELSE evaluated

process_initial_message(info, oracle) == RunQuestionGraph(NewState(strip(info)), oracle)

\* WorkflowManager.db_to_state_format: the persisted fields as a workflow state
db_to_state_format(cs) ==
    [NewState(cs.user_info) EXCEPT !.question_queue = cs.question_queue,
                                   !.destinations = cs.destinations_text]

\* the else branch starting the conversation over, as its reply announces
UnexpectedStage_StartOver(cs) == [cs EXCEPT !.current_stage = "initial"]

\* the else branch of chat_message: a stage it does not handle
UnexpectedStage(cs) == cs

\* the three handled branches of chat_message; each yields the conversation
\* state, trip and recommendations it leaves, the AI text (<<>> for None, else
\* <<text>>) and the workflow state
\* the initial branch leaving total_questions at its default
InitialStage_NoTotal(cs, tr, rs, ws) ==
    LET next == get_next_question(ws)
    IN  [conv |-> [cs EXCEPT !.user_info = ws.info,
                             !.question_queue = ws.question_queue,
                             !.current_stage = "asking_clarifications",
                             !.questions_asked = IF next # <<>> THEN 1 ELSE @],
         trip |-> tr, recs |-> rs, ai |-> next, state |-> ws]

InitialStage(cs, tr, rs, ws) ==
    LET next == get_next_question(ws)
    IN  [conv |-> [cs EXCEPT !.user_info = ws.info,
                             !.question_queue = ws.question_queue,
                             !.total_questions = Len(ws.question_queue),
                             !.current_stage = "asking_clarifications",
                             !.questions_asked = IF next # <<>> THEN 1 ELSE @],
         trip |-> tr, recs |-> rs, ai |-> next, state |-> ws]

\* the clarification branch counting a question asked after every answer,
\* the last one included
ClarificationStage_AlwaysCounts(cs, tr, rs, message_text) ==
    LET ws == process_clarification_answer(db_to_state_format(cs), message_text)
        cs1 == [cs EXCEPT !.user_info = ws.info, !.question_queue = ws.question_queue,
                          !.questions_asked = @ + 1]
        next == get_next_question(ws)
    IN  IF JoinLines(ws.destinations) # <<>>
        THEN [conv |-> [cs1 EXCEPT !.destinations_text = ws.destinations,
                                   !.current_stage = "destinations_complete"],
              trip |-> tr,
              recs |-> Append(rs, view_parse_destinations(ws.destinations)),
              ai |-> <<JoinLines(ws.destinations)>>, state |-> ws]
        ELSE IF next # <<>>
        THEN [conv |-> cs1, trip |-> tr, recs |-> rs, ai |-> next, state |-> ws]
        ELSE [conv |-> [cs1 EXCEPT !.current_stage = "generating_destinations"],
              trip |-> tr, recs |-> rs, ai |-> <<ThinkingText>>, state |-> ws]

ClarificationStage(cs, tr, rs, message_text) ==
    LET ws == process_clarification_answer(db_to_state_format(cs), message_text)
        cs1 == [cs EXCEPT !.user_info = ws.info, !.question_queue = ws.question_queue]
        next == get_next_question(ws)
    IN  IF JoinLines(ws.destinations) # <<>>
        THEN [conv |-> [cs1 EXCEPT !.destinations_text = ws.destinations,
                                   !.current_stage = "destinations_complete"],
              trip |-> tr,
              recs |-> Append(rs, view_parse_destinations(ws.destinations)),
              ai |-> <<JoinLines(ws.destinations)>>, state |-> ws]
        ELSE IF next # <<>>
        THEN [conv |-> [cs1 EXCEPT !.questions_asked = @ + 1],
              trip |-> tr, recs |-> rs, ai |-> next, state |-> ws]
        ELSE [conv |-> [cs1 EXCEPT !.current_stage = "generating_destinations"],
              trip |-> tr, recs |-> rs, ai |-> <<ThinkingText>>, state |-> ws]

PostDestinationStage(cs, tr, rs, message_text) ==
    LET h == handle_post_destination_message(message_text, rs, cs, tr)
    IN  [conv |-> h.conv, trip |-> h.trip, recs |-> rs, ai |-> <<h.text>>,
         state |-> NewState(<<>>)]

NoResponse ==
    [status |-> 0, error |-> "", message |-> "", stage |-> "", ai |-> <<>>, progress |-> 0,
     question_number |-> 0, total_questions |-> 0, destinations |-> <<>>]

ErrorResponse(code, text) == [NoResponse EXCEPT !.status = code, !.error = text]

\* response_data of a processed message
ChatResponse(cs, rs, ai) ==
    LET asking == cs.current_stage = "asking_clarifications"
    IN  [NoResponse EXCEPT
            !.status = 200,
            !.stage = cs.current_stage,
            !.ai = ai,
            !.progress = IF asking THEN get_progress_percentage(cs) ELSE 100,
            !.question_number = IF asking THEN cs.questions_asked ELSE 0,
            !.total_questions = IF asking THEN cs.total_questions ELSE 0,
            !.destinations =
                IF /\ cs.current_stage = "destinations_complete"
                   /\ JoinLines(cs.destinations_text) # <<>>
                   /\ rs # <<>>
                THEN rs[Len(rs)] ELSE <<>>]

\* chat_message without the atomic block: a failed request keeps the
\* conversation and the user message it had already written
chat_message_NoRollback(tr, cs, ms, rs, id, message, initial, raises) ==
    LET message_text == strip(message)
        tr1 == IF tr.status = "planning" THEN [tr EXCEPT !.status = "ai_chat_active"] ELSE tr
        cs0 == IF cs.exists THEN cs ELSE NewConversation(id)
        out == CASE cs0.current_stage = "initial" ->
                        InitialStage(cs0, tr1, rs, initial)
                 [] cs0.current_stage = "asking_clarifications" ->
                        ClarificationStage(cs0, tr1, rs, message_text)
                 [] cs0.current_stage = "destinations_complete" ->
                        PostDestinationStage(cs0, tr1, rs, message_text)
                 [] OTHER ->
                        [conv |-> UnexpectedStage(cs0), trip |-> tr1, recs |-> rs,
                         ai |-> <<StartOverText>>, state |-> NewState(<<>>)]
    IN  IF message_text = <<>>
        THEN [trip |-> tr, conv |-> cs, messages |-> ms, recs |-> rs, state |-> NewState(<<>>),
              response |-> ErrorResponse(400, "trip_id and message are required")]
        ELSE IF raises \/ out.ai = <<>>
        THEN [trip |-> tr1, conv |-> cs0,
              messages |-> Append(ms, [is_user |-> TRUE, content |-> message_text]),
              recs |-> rs, state |-> NewState(<<>>),
              response |-> ErrorResponse(500, "An error occurred processing your message")]
        ELSE [trip |-> out.trip, conv |-> out.conv,
              messages |-> ms \o <<[is_user |-> TRUE, content |-> message_text],
                                   [is_user |-> FALSE, content |-> out.ai[1]]>>,
              recs |-> out.recs, state |-> out.state,
              response |-> ChatResponse(out.conv, out.recs, out.ai[1])]

\* chat_message whose trip update is not undone with the atomic block: a
\* failed request keeps the trip the stage handler wrote
chat_message_TripSurvives(tr, cs, ms, rs, id, message, initial, raises) ==
    LET message_text == strip(message)
        tr1 == IF tr.status = "planning" THEN [tr EXCEPT !.status = "ai_chat_active"] ELSE tr
        cs0 == IF cs.exists THEN cs ELSE NewConversation(id)
        out == CASE cs0.current_stage = "initial" ->
                        InitialStage(cs0, tr1, rs, initial)
                 [] cs0.current_stage = "asking_clarifications" ->
                        ClarificationStage(cs0, tr1, rs, message_text)
                 [] cs0.current_stage = "destinations_complete" ->
                        PostDestinationStage(cs0, tr1, rs, message_text)
                 [] OTHER ->
                        [conv |-> UnexpectedStage(cs0), trip |-> tr1, recs |-> rs,
                         ai |-> <<StartOverText>>, state |-> NewState(<<>>)]
    IN  IF message_text = <<>>
        THEN [trip |-> tr, conv |-> cs, messages |-> ms, recs |-> rs, state |-> NewState(<<>>),
              response |-> ErrorResponse(400, "trip_id and message are required")]
        ELSE IF raises \/ out.ai = <<>>
        THEN [trip |-> out.trip, conv |-> cs, messages |-> ms, recs |-> rs,
              state |-> NewState(<<>>),
              response |-> ErrorResponse(500, "An error occurred processing your message")]
        ELSE [trip |-> out.trip, conv |-> out.conv,
              messages |-> ms \o <<[is_user |-> TRUE, content |-> message_text],
                                   [is_user |-> FALSE, content |-> out.ai[1]]>>,
              recs |-> out.recs, state |-> out.state,
              response |-> ChatResponse(out.conv, out.recs, out.ai[1])]

\* chat_message: the rows and the response one request leaves.  initial: what
\* process_initial_message returns for this message, should the stage call it.
\* raises: a collaborator (gateway, workflow manager, store) raises inside the
\* atomic block.  The message domain holds no text that
\* validate_no_sql_injection rejects.
chat_message(tr, cs, ms, rs, id, message, initial, raises) ==
    LET message_text == strip(message)
        tr1 == IF tr.status = "planning" THEN [tr EXCEPT !.status = "ai_chat_active"] ELSE tr
        cs0 == IF cs.exists THEN cs ELSE NewConversation(id)
        out == CASE cs0.current_stage = "initial" ->
                        InitialStage(cs0, tr1, rs, initial)
                 [] cs0.current_stage = "asking_clarifications" ->
                        ClarificationStage(cs0, tr1, rs, message_text)
                 [] cs0.current_stage = "destinations_complete" ->
                        PostDestinationStage(cs0, tr1, rs, message_text)
                 [] OTHER ->
                        [conv |-> UnexpectedStage(cs0), trip |-> tr1, recs |-> rs,
                         ai |-> <<StartOverText>>, state |-> NewState(<<>>)]
    IN  IF message_text = <<>>
        THEN [trip |-> tr, conv |-> cs, messages |-> ms, recs |-> rs, state |-> NewState(<<>>),
              response |-> ErrorResponse(400, "trip_id and message are required")]
        ELSE IF raises \/ out.ai = <<>>
        \* rolled back: Message.content is NOT NULL, so a None reply raises too
        THEN [trip |-> tr1, conv |-> cs, messages |-> ms, recs |-> rs, state |-> NewState(<<>>),
              response |-> ErrorResponse(500, "An error occurred processing your message")]
        ELSE [trip |-> out.trip, conv |-> out.conv,
              messages |-> ms \o <<[is_user |-> TRUE, content |-> message_text],
                                   [is_user |-> FALSE, content |-> out.ai[1]]>>,
              recs |-> out.recs, state |-> out.state,
              response |-> ChatResponse(out.conv, out.recs, out.ai[1])]

\* what the user types
ChatMessages == { <<" ", "y">>, <<" ", " ">>, <<"B", "o", "o", "k", " ", "P">> }

\* what the user types to a stored conversation: also a commitment phrase that
\* names no destination, and a destination named without a commitment phrase
StoreMessages == ChatMessages \cup { <<"b", "o", "o", "k">>, <<"T">> }

\* the gateway's replies to one run of the question graph, round by round
Oracles(texts) ==
    {<<[text |-> t1, reply |-> r1], [text |-> t2, reply |-> r2]>> :
        t1 \in texts, r1 \in EvaluatorReplies, t2 \in texts, r2 \in EvaluatorReplies}

\* every state process_initial_message can return for a message
InitialRuns(texts, message) ==
    {process_initial_message(strip(message), o) : o \in Oracles(texts)}

\* the same, tabulated for the messages users type
ChatRuns == [m \in ChatMessages |-> InitialRuns(ChatQuestionTexts, m)]
FewRuns == [m \in StoreMessages |-> InitialRuns(FewQuestionTexts, m)]

Commit(out) ==
    /\ trip' = out.trip
    /\ conv' = out.conv
    /\ messages' = out.messages
    /\ recs' = out.recs
    /\ response' = out.response
    /\ state' = out.state
    /\ requests' = requests + 1
    /\ UNCHANGED <<node, calls, result>>
    /\ UNCHANGED tripsVars

\* POST chat/ ; only a first message runs the question graph
ChatMessage(runs) ==
    /\ requests < MaxRequests
    /\ \E message \in DOMAIN runs, raises \in BOOLEAN :
          IF (~conv.exists \/ conv.current_stage = "initial") /\ ~raises /\ strip(message) # <<>>
          THEN \E initial \in runs[message] :
                  Commit(chat_message(trip, conv, messages, recs, requests + 1,
                                      message, initial, raises))
          ELSE Commit(chat_message(trip, conv, messages, recs, requests + 1,
                                   message, NewState(<<>>), raises))

\* reset_conversation that leaves the trip's destination in place
ResetConversation_KeepsDestination ==
    /\ requests < MaxRequests
    /\ conv' = NoConversation
    /\ messages' = <<>>
    /\ recs' = <<>>
    /\ trip' = [trip EXCEPT !.status = "planning"]
    /\ response' = [NoResponse EXCEPT !.status = 200,
                                      !.message = "Conversation reset successfully"]
    /\ requests' = requests + 1
    /\ UNCHANGED engineVars
    /\ UNCHANGED tripsVars

\* POST conversations/<trip_id>/reset/
ResetConversation ==
    /\ requests < MaxRequests
    /\ conv' = NoConversation
    /\ messages' = <<>>
    /\ recs' = <<>>
    /\ trip' = [trip EXCEPT !.status = "planning", !.destination = <<>>]
    /\ response' = [NoResponse EXCEPT !.status = 200,
                                      !.message = "Conversation reset successfully"]
    /\ requests' = requests + 1
    /\ UNCHANGED engineVars
    /\ UNCHANGED tripsVars

EngineIdle ==
    /\ state = NewState(<<>>)
    /\ node = "idle"
    /\ calls = 0
    /\ result = NoResult

\* a trip that has no conversation yet
Init ==
    /\ EngineIdle
    /\ trip = NewTrip
    /\ conv = NoConversation
    /\ messages = <<>>
    /\ recs = <<>>
    /\ response = NoResponse
    /\ requests = 0
    /\ SingleTrip

Next ==
    \/ ChatMessage(ChatRuns)
    \/ ResetConversation

Spec == Init /\ [][Next]_vars

(***************************************************************************)
(* Stored conversations: the rows the ORM can hold for a trip, in every    *)
(* stage of WORKFLOW_STAGES                                                *)
(***************************************************************************)
SeedQueue == << <<"a", "?">>, <<"b", "?">> >>
SeedInfo == <<"g", "o">>
SeedLocations == view_parse_destinations(DT_Good)

StoredRows ==
    LET chatting == [NewTrip EXCEPT !.status = "ai_chat_active"]
        base == [NewConversation(0) EXCEPT !.user_info = SeedInfo]
        asking == [base EXCEPT !.current_stage = "asking_clarifications",
                               !.question_queue = SeedQueue,
                               !.questions_asked = 1, !.total_questions = 2]
        complete == [base EXCEPT !.current_stage = "destinations_complete",
                                 !.destinations_text = DT_Good,
                                 !.questions_asked = 2, !.total_questions = 2]
    IN  { [trip |-> NewTrip, conv |-> NoConversation, recs |-> <<>>],
          [trip |-> chatting, conv |-> base, recs |-> <<>>],
          [trip |-> chatting, conv |-> [base EXCEPT !.current_stage = "generating_questions"],
           recs |-> <<>>],
          [trip |-> chatting, conv |-> asking, recs |-> <<>>],
          [trip |-> chatting, conv |-> [asking EXCEPT !.destinations_text = DT_Four], recs |-> <<>>],
          [trip |-> chatting,
           conv |-> [base EXCEPT !.current_stage = "generating_destinations",
                                 !.questions_asked = 2, !.total_questions = 2],
           recs |-> <<>>],
          [trip |-> chatting, conv |-> complete, recs |-> <<SeedLocations>>],
          [trip |-> chatting, conv |-> complete, recs |-> <<>>],
          [trip |-> chatting, conv |-> [complete EXCEPT !.destinations_text = DT_Bare],
           recs |-> <<view_parse_destinations(DT_Bare)>>],
          [trip |-> chatting, conv |-> [complete EXCEPT !.destinations_text = DT_None],
           recs |-> <<view_parse_destinations(DT_None)>>],
          [trip |-> [status |-> "destinations_selected", destination |-> <<SeedLocations[1].name>>],
           conv |-> [complete EXCEPT !.current_stage = "commitment_detected"],
           recs |-> <<SeedLocations>>] }

StoreSeeded ==
    /\ EngineIdle
    /\ \E row \in StoredRows :
          /\ trip = row.trip
          /\ conv = row.conv
          /\ recs = row.recs
    /\ messages = <<>>
    /\ response = NoResponse
    /\ requests = 0
    /\ SingleTrip

StoreNext ==
    \/ ChatMessage(FewRuns)
    \/ ResetConversation

StoreSpec == StoreSeeded /\ [][StoreNext]_vars

(***************************************************************************)
(* Two trips of two users behind the three endpoints.  Every query of the  *)
(* views is keyed by the trip that get_object_or_404 returned, so a        *)
(* request reads and writes the rows of that trip.                         *)
(***************************************************************************)
TripIds == {1, 2}
RequestedIds == {1, 2, 3}
Users == {"u1", "u2"}
\* Trip.user
Owner == [t \in TripIds |-> IF t = 1 THEN "u1" ELSE "u2"]

\* the rows of a trip: trip 1 in trip, conv, messages and recs, trip 2 in other
RowOf(t) ==
    IF t = 1 THEN [trip |-> trip, conv |-> conv, messages |-> messages, recs |-> recs]
    ELSE other
Rows == [t \in TripIds |-> RowOf(t)]

\* get_object_or_404(Trip, id=trip_id, user=request.user) finds a row
TripFound(rows, trip_id, user) == trip_id \in DOMAIN rows /\ Owner[trip_id] = user

NotFoundResponse == [NoResponse EXCEPT !.status = 404]

\* chat_message behind its rate limit and trip lookup
\* the rows after the handler wrote the trip's rows, with its response
WithRow(rows, trip_id, out) ==
    [rows |-> [rows EXCEPT ![trip_id] =
                 [trip |-> out.trip, conv |-> out.conv,
                  messages |-> out.messages, recs |-> out.recs]],
     response |-> out.response]

trips_chat_message(rows, user, trip_id, id, message, initial, raises, limited) ==
    IF limited
    THEN [rows |-> rows,
          response |-> ErrorResponse(429, "Too many requests. Please wait a moment and try again.")]
    ELSE IF strip(message) = <<>>
    THEN [rows |-> rows, response |-> ErrorResponse(400, "trip_id and message are required")]
    ELSE IF ~TripFound(rows, trip_id, user)
    THEN [rows |-> rows, response |-> NotFoundResponse]
    ELSE WithRow(rows, trip_id,
                 chat_message(rows[trip_id].trip, rows[trip_id].conv, rows[trip_id].messages,
                              rows[trip_id].recs, id, message, initial, raises))

ResetResponse == [NoResponse EXCEPT !.status = 200, !.message = "Conversation reset successfully"]

\* reset_conversation deleting every conversation, not only the trip's
trips_reset_conversation_DeletesAll(rows, user, trip_id) ==
    IF ~TripFound(rows, trip_id, user)
    THEN [rows |-> rows, response |-> NotFoundResponse]
    ELSE [rows |-> [t \in DOMAIN rows |->
                      [trip |-> IF t = trip_id
                                THEN [rows[t].trip EXCEPT !.status = "planning", !.destination = <<>>]
                                ELSE rows[t].trip,
                       conv |-> NoConversation, messages |-> <<>>, recs |-> <<>>]],
          response |-> ResetResponse]

\* reset_conversation
trips_reset_conversation(rows, user, trip_id) ==
    IF ~TripFound(rows, trip_id, user)
    THEN [rows |-> rows, response |-> NotFoundResponse]
    ELSE [rows |-> [rows EXCEPT ![trip_id] =
                      [trip |-> [rows[trip_id].trip EXCEPT !.status = "planning",
                                                           !.destination = <<>>],
                       conv |-> NoConversation, messages |-> <<>>, recs |-> <<>>]],
          response |-> ResetResponse]

\* get_conversation answering a request for a trip of another user with that
\* trip's conversation
get_conversation_AnyOwner(rows, user, trip_id) ==
    IF trip_id \notin DOMAIN rows
    THEN NotFoundResponse
    ELSE IF ~rows[trip_id].conv.exists
    THEN [NotFoundResponse EXCEPT !.message = "No conversation started yet for this trip"]
    ELSE [NoResponse EXCEPT
            !.status = 200,
            !.stage = rows[trip_id].conv.current_stage,
            !.progress = get_progress_percentage(rows[trip_id].conv),
            !.destinations = IF rows[trip_id].recs # <<>>
                             THEN rows[trip_id].recs[Len(rows[trip_id].recs)] ELSE <<>>]

\* get_conversation: the response; it writes nothing
get_conversation(rows, user, trip_id) ==
    IF ~TripFound(rows, trip_id, user)
    THEN NotFoundResponse
    ELSE IF ~rows[trip_id].conv.exists
    THEN [NotFoundResponse EXCEPT !.message = "No conversation started yet for this trip"]
    ELSE [NoResponse EXCEPT
            !.status = 200,
            !.stage = rows[trip_id].conv.current_stage,
            !.progress = get_progress_percentage(rows[trip_id].conv),
            !.destinations = IF rows[trip_id].recs # <<>>
                             THEN rows[trip_id].recs[Len(rows[trip_id].recs)] ELSE <<>>]

\* what the users of the two trips type; the gateway answers every first
\* message with the same two questions and a passing grade
TripMessages == { <<" ", "y">>, <<" ", " ">>, <<"B", "o", "o", "k", " ", "P">> }
TripOracle ==
    LET round == [text |-> QT_Dup, reply |-> <<LBrace, Grade("pass"), Notes(<<Note1>>), RBrace>>]
    IN  <<round, round>>
TripRuns == [m \in TripMessages |-> {process_initial_message(strip(m), TripOracle)}]

NoRequest == [user |-> "", trip_id |-> 0, kind |-> "", message |-> <<>>, limited |-> FALSE]

CommitRows(out, req) ==
    /\ trip' = out.rows[1].trip
    /\ conv' = out.rows[1].conv
    /\ messages' = out.rows[1].messages
    /\ recs' = out.rows[1].recs
    /\ other' = out.rows[2]
    /\ response' = out.response
    /\ request' = req
    /\ requests' = requests + 1
    /\ UNCHANGED <<engineVars, session, inflight>>

\* POST chat/ by any user for any trip id
TripsChatMessage ==
    /\ requests < MaxTripRequests
    /\ \E user \in Users, trip_id \in RequestedIds, message \in TripMessages,
          raises \in BOOLEAN, limited \in BOOLEAN :
          LET req == [NoRequest EXCEPT !.user = user, !.trip_id = trip_id, !.kind = "chat",
                                       !.message = message, !.limited = limited]
              starts == /\ ~limited
                        /\ ~raises
                        /\ strip(message) # <<>>
                        /\ TripFound(Rows, trip_id, user)
                        /\ (~Rows[trip_id].conv.exists
                            \/ Rows[trip_id].conv.current_stage = "initial")
          IN  \E initial \in (IF starts THEN TripRuns[message] ELSE {NewState(<<>>)}) :
                  CommitRows(trips_chat_message(Rows, user, trip_id, requests + 1, message,
                                                initial, raises, limited), req)

\* GET conversations/<trip_id>/
TripsGetConversation ==
    /\ requests < MaxTripRequests
    /\ \E user \in Users, trip_id \in RequestedIds :
          CommitRows([rows |-> Rows, response |-> get_conversation(Rows, user, trip_id)],
                     [NoRequest EXCEPT !.user = user, !.trip_id = trip_id, !.kind = "get"])

\* POST conversations/<trip_id>/reset/
TripsResetConversation ==
    /\ requests < MaxTripRequests
    /\ \E user \in Users, trip_id \in RequestedIds :
          CommitRows(trips_reset_conversation(Rows, user, trip_id),
                     [NoRequest EXCEPT !.user = user, !.trip_id = trip_id, !.kind = "reset"])

\* the rows a trip can hold when the requests start
TripRows ==
    { [trip |-> NewTrip, conv |-> NoConversation, messages |-> <<>>, recs |-> <<>>],
      [trip |-> [NewTrip EXCEPT !.status = "ai_chat_active"],
       conv |-> [NewConversation(0) EXCEPT !.user_info = SeedInfo,
                                           !.current_stage = "destinations_complete",
                                           !.destinations_text = DT_Good,
                                           !.questions_asked = 2, !.total_questions = 2],
       messages |-> <<>>,
       recs |-> <<SeedLocations>>] }

TripsInit ==
    /\ EngineIdle
    /\ \E row \in TripRows :
          /\ trip = row.trip
          /\ conv = row.conv
          /\ messages = row.messages
          /\ recs = row.recs
    /\ other \in TripRows
    /\ response = NoResponse
    /\ request = NoRequest
    /\ requests = 0
    /\ session = <<>>
    /\ inflight = <<>>

TripsNext ==
    \/ TripsChatMessage
    \/ TripsGetConversation
    \/ TripsResetConversation

TripsSpec == TripsInit /\ [][TripsNext]_vars

(***************************************************************************)
(* api/models.py PlanningSession and api/views.py PlanningSessionViewSet   *)
(***************************************************************************)
PLANNING_STAGES ==
    <<"destination", "accommodation", "flights", "activities", "itinerary", "finalization",
      "completed", "paused">>

\* seq.index(x) + 1, or 0 for ValueError
IndexIn(seq, x) ==
    IF \E i \in 1..Len(seq) : seq[i] = x
    THEN CHOOSE i \in 1..Len(seq) : seq[i] = x /\ \A j \in 1..(i - 1) : seq[j] # x
    ELSE 0

\* a PlanningSession as PlanningSession.objects.create(current_stage=stage)
\* makes it; completed_at = 0 is None, times are request numbers
NewSession(stage) ==
    [current_stage |-> stage, is_active |-> TRUE, stages_completed |-> <<>>,
     completed_at |-> 0, last_interaction_at |-> 0]

mark_stage_completed(s, stage) ==
    IF \A i \in 1..Len(s.stages_completed) : s.stages_completed[i] # stage
    THEN [s EXCEPT !.stages_completed = Append(s.stages_completed, stage)]
    ELSE s

\* get_next_stage with PLANNING_STAGES[:-3] where the code has [:-2]
get_next_stage_ExcludesThree(s) ==
    LET stage_order == SubSeq(PLANNING_STAGES, 1, Len(PLANNING_STAGES) - 3)
        current_index == IndexIn(stage_order, s.current_stage)
    IN  IF current_index # 0 /\ current_index < Len(stage_order)
        THEN stage_order[current_index + 1]
        ELSE "completed"

get_next_stage(s) ==
    LET stage_order == SubSeq(PLANNING_STAGES, 1, Len(PLANNING_STAGES) - 2)
        current_index == IndexIn(stage_order, s.current_stage)
    IN  IF current_index # 0 /\ current_index < Len(stage_order)
        THEN stage_order[current_index + 1]
        ELSE "completed"

\* PlanningSession.advance_to_next_stage at time now
advance_to_next_stage(s, now) ==
    LET marked == mark_stage_completed(s, s.current_stage)
        next_stage == get_next_stage(marked)
    IN  IF next_stage = "completed"
        THEN [marked EXCEPT !.current_stage = next_stage, !.is_active = FALSE,
                            !.completed_at = now, !.last_interaction_at = now]
        ELSE [marked EXCEPT !.current_stage = next_stage, !.last_interaction_at = now]

\* _sync_trip_status without the entry for completed
sync_trip_status_NoCompleted(s, t) ==
    LET stage_to_status ==
            [stage \in {"destination", "accommodation", "flights", "activities", "itinerary"} |->
                CASE stage = "destination" -> "destinations_selected"
                  [] stage = "accommodation" -> "hotels_selected"
                  [] stage = "flights" -> "flights_selected"
                  [] stage = "activities" -> "activities_planned"
                  [] stage = "itinerary" -> "itinerary_complete"]
    IN  IF s.current_stage \in DOMAIN stage_to_status
        THEN [t EXCEPT !.status = stage_to_status[s.current_stage]]
        ELSE t

\* _sync_trip_status: the trip after the sync
sync_trip_status(s, t) ==
    LET stage_to_status ==
            [stage \in {"destination", "accommodation", "flights", "activities", "itinerary",
                        "completed"} |->
                CASE stage = "destination" -> "destinations_selected"
                  [] stage = "accommodation" -> "hotels_selected"
                  [] stage = "flights" -> "flights_selected"
                  [] stage = "activities" -> "activities_planned"
                  [] stage = "itinerary" -> "itinerary_complete"
                  [] stage = "completed" -> "booked"]
    IN  IF s.current_stage \in DOMAIN stage_to_status
        THEN [t EXCEPT !.status = stage_to_status[s.current_stage]]
        ELSE t

\* advance_stage: the session, the trip and the response data
advance_stage(s, t, now) ==
    LET old_stage == s.current_stage
        next_stage == get_next_stage(s)
        moved == IF next_stage = "completed"
                 THEN [s EXCEPT !.current_stage = "completed", !.is_active = FALSE,
                                !.completed_at = now]
                 ELSE [s EXCEPT !.current_stage = next_stage]
        saved == [mark_stage_completed(moved, old_stage) EXCEPT !.last_interaction_at = now]
    IN  [session |-> saved,
         trip |-> sync_trip_status(saved, t),
         response |-> [status |-> 200, previous_stage |-> old_stage,
                       current_stage |-> saved.current_stage,
                       is_complete |-> saved.current_stage = "completed"]]

\* round(x, 1) of (num / den) * 100, in tenths of a percent
RoundTenths(num, den) == (2 * 1000 * num + den) \div (2 * den)

\* the status endpoint's response data; progress_percentage in tenths
status(s) ==
    LET stages == SubSeq(PLANNING_STAGES, 1, Len(PLANNING_STAGES) - 2)
        current_index == IF IndexIn(stages, s.current_stage) # 0
                         THEN IndexIn(stages, s.current_stage) - 1 ELSE 0
    IN  [status |-> 200, current_stage |-> s.current_stage,
         completed_stages |-> s.stages_completed,
         progress_percentage |-> RoundTenths(current_index, Len(stages)),
         can_continue |-> s.current_stage # "completed"]

\* the trip statuses a session is created on
SessionTripStatuses == {"planning", "destinations_selected"}

SessionRequest(kind) == [NoRequest EXCEPT !.kind = kind]

PlanningInit ==
    /\ EngineIdle
    /\ trip \in {[NewTrip EXCEPT !.status = st] : st \in SessionTripStatuses}
    /\ conv = NoConversation
    /\ messages = <<>>
    /\ recs = <<>>
    /\ other = <<>>
    /\ inflight = <<>>
    /\ response = NoResponse
    /\ request = NoRequest
    /\ requests = 0
    /\ \E stage \in {PLANNING_STAGES[i] : i \in 1..Len(PLANNING_STAGES)} :
          session = NewSession(stage)

\* POST planning-sessions/<id>/advance_stage
AdvanceStage ==
    /\ requests < MaxSessionRequests
    /\ \E out \in {advance_stage(session, trip, requests + 1)} :
          /\ session' = out.session
          /\ trip' = out.trip
          /\ response' = out.response
    /\ request' = SessionRequest("advance_stage")
    /\ requests' = requests + 1
    /\ UNCHANGED <<engineVars, conv, messages, recs, other, inflight>>

\* session.advance_to_next_stage() called on the row
AdvanceToNextStage ==
    /\ requests < MaxSessionRequests
    /\ session' = advance_to_next_stage(session, requests + 1)
    /\ request' = SessionRequest("advance_to_next_stage")
    /\ requests' = requests + 1
    /\ UNCHANGED <<engineVars, trip, conv, messages, recs, other, inflight, response>>

\* GET planning-sessions/<id>/status
Status ==
    /\ requests < MaxSessionRequests
    /\ response' = status(session)
    /\ request' = SessionRequest("status")
    /\ requests' = requests + 1
    /\ UNCHANGED <<engineVars, trip, conv, messages, recs, other, inflight, session>>

PlanningNext ==
    \/ AdvanceStage
    \/ AdvanceToNextStage
    \/ Status

PlanningSpec == PlanningInit /\ [][PlanningNext]_vars

(***************************************************************************)
(* Two chat requests handled at the same time.  A request reads the        *)
(* conversation rows when it enters the atomic block (get_or_create, no    *)
(* select_for_update) and writes them with conv_state.save() when it       *)
(* leaves; the database shows each request the rows committed so far.      *)
(***************************************************************************)
Handlers == {1, 2}

LongQueue == << <<"a", "?">>, <<"b", "?">>, <<"c", "?">> >>

\* the conversations the two requests find
AskingRows ==
    LET base == [NewConversation(0) EXCEPT !.user_info = SeedInfo,
                                           !.current_stage = "asking_clarifications"]
    IN  { [base EXCEPT !.question_queue = SeedQueue, !.questions_asked = 1, !.total_questions = 2],
          [base EXCEPT !.question_queue = LongQueue, !.questions_asked = 1, !.total_questions = 3] }

NotReceived ==
    [phase |-> "new", message |-> <<>>, raises |-> FALSE, overlapped |-> FALSE,
     seen |-> <<>>, status |-> 0]

ConcurrentInit ==
    /\ EngineIdle
    /\ trip = [NewTrip EXCEPT !.status = "ai_chat_active"]
    /\ conv \in AskingRows
    /\ messages = <<>>
    /\ recs = <<>>
    /\ response = NoResponse
    /\ requests = 0
    /\ other = <<>>
    /\ request = <<>>
    /\ session = <<>>
    /\ inflight = [h \in Handlers |-> NotReceived]

\* the request enters the atomic block and reads the rows
ReadRows(h) ==
    /\ inflight[h].phase = "new"
    /\ \E message \in Answers, raises \in BOOLEAN :
          inflight' =
              [g \in Handlers |->
                  IF g = h
                  THEN [NotReceived EXCEPT
                            !.phase = "read", !.message = message, !.raises = raises,
                            !.overlapped = \E k \in Handlers : inflight[k].phase = "read",
                            !.seen = [trip |-> trip, conv |-> conv, messages |-> messages,
                                      recs |-> recs]]
                  ELSE IF inflight[g].phase = "read"
                  THEN [inflight[g] EXCEPT !.overlapped = TRUE]
                  ELSE inflight[g]]
    /\ UNCHANGED <<engineVars, trip, conv, messages, recs, response, requests, other, request,
                   session>>

\* the rows after a request that read seen commits out: save() writes the
\* whole ConversationState row, the created rows are added to the tables
WriteRows(h, out) ==
    /\ trip' = out.trip
    /\ conv' = IF out.response.status = 200 THEN out.conv ELSE conv
    /\ messages' = messages \o SubSeq(out.messages, Len(inflight[h].seen.messages) + 1,
                                       Len(out.messages))
    /\ recs' = recs \o SubSeq(out.recs, Len(inflight[h].seen.recs) + 1, Len(out.recs))
    /\ response' = out.response
    /\ inflight' = [inflight EXCEPT ![h].phase = "done", ![h].status = out.response.status]
    /\ requests' = requests + 1
    /\ UNCHANGED <<engineVars, other, request, session>>

\* the request runs its stage on the rows it read and leaves the atomic block
Respond(h) ==
    /\ inflight[h].phase = "read"
    /\ \E out \in {chat_message(inflight[h].seen.trip, inflight[h].seen.conv,
                                  inflight[h].seen.messages, inflight[h].seen.recs, requests + 1,
                                  inflight[h].message, NewState(<<>>), inflight[h].raises)} :
          WriteRows(h, out)

ConcurrentNext == \E h \in Handlers : ReadRows(h) \/ Respond(h)

ConcurrentSpec == ConcurrentInit /\ [][ConcurrentNext]_vars

(***************************************************************************)
(* Properties                                                              *)
(***************************************************************************)
\* C1: finalize_recommendations on a state whose question_queue is not
\* empty returns the error payload naming the head of the queue, makes no
\* gateway call and leaves the state as it was.
C1_FinalizeRefusesPending ==
    [][(/\ node = "idle"
        /\ result'.call = "finalize_recommendations"
        /\ state.question_queue # <<>>)
       => (/\ result'.kind = "error"
           /\ result'.next_question = Head(state.question_queue)
           /\ calls' = 0
           /\ state' = state
           /\ node' = "idle")]_vars

\* a refusal with two questions pending
C1_Witness ==
    /\ result.call = "finalize_recommendations"
    /\ result.kind = "error"
    /\ Len(state.question_queue) = 2
    /\ result.next_question = state.question_queue[1]
    /\ calls = 0

C3_PassDistinctOrFailNotes ==
    result.kind = "success" =>
        \/ /\ result.grade = "pass"
           /\ Len(result.destinations) = 3
           /\ \A i, j \in 1..3 :
                 i # j => City(result.destinations[i].title) # City(result.destinations[j].title)
        \/ /\ result.grade = "fail"
           /\ result.notes # <<>>

\* a pass reached on the last allowed generation
C3_Witness ==
    /\ result.kind = "success"
    /\ result.grade = "pass"
    /\ result.iterations = MAX_DEST_ITERS
    /\ Len(result.destinations) = 3

\* C4: the question_queue of the workflow state and of the persisted
\* ConversationState never holds more than 6 questions.
C4_QueueAtMostSix ==
    /\ Len(state.question_queue) <= 6
    /\ Len(conv.question_queue) <= 6

\* the gateway listed more than 6 distinct questions and 6 were stored
C4_Witness ==
    /\ conv.exists
    /\ Len(state.feedback) > 6
    /\ Len(conv.question_queue) = 6
    /\ Len(state.question_queue) = 6

\* C5: every string in a question_queue the question cycle produces ends
\* with '?'.
C5_QuestionsEndWithMark ==
    \A i \in 1..Len(state.question_queue) : EndsWithQ(state.question_queue[i])

\* the cycle ended with grade fail on a text with unterminated lines
C5_Witness ==
    /\ node = "idle"
    /\ state.qe_grade = "fail"
    /\ state.question_iteration = MAX_Q_ITERS
    /\ state.feedback = QT_Messy
    /\ state.question_queue # <<>>

\* C6: process_clarification_answer removes exactly the head question,
\* keeping the order of the rest, and appends exactly one Q/A pair to
\* question_history; on an empty queue it returns the state unchanged.
C6_AnswerConsumesHead ==
    [][(node = "idle" /\ result'.call = "process_clarification_answer")
       => IF state.question_queue # <<>>
          THEN /\ state'.question_queue = Tail(state.question_queue)
               /\ Len(state'.question_history) = Len(state.question_history) + 1
               /\ IsPrefix(state.question_history, state'.question_history)
               /\ state'.question_history[Len(state'.question_history)].q
                     = Head(state.question_queue)
          ELSE state' = state]_vars

\* one answer given, several questions still queued behind it
C6_Witness ==
    /\ result.call = "process_clarification_answer"
    /\ Len(state.question_history) = 1
    /\ Len(state.question_queue) >= 2
    /\ state.question_history[1].q # state.question_queue[1]

\* C7: accumulated info never shrinks: the info before a step is a prefix of
\* the info after it.
C7_InfoOnlyGrows == [][IsPrefix(state.info, state'.info)]_vars

\* info holding an answer and the refinement notes of both cycles
C7_Witness ==
    /\ \E i \in 1..Len(state.info) : state.info[i] = "\nA: "
    /\ \E i \in 1..Len(state.info) : state.info[i] = "\nREFINEMENT_FOR_QUESTIONS:\n"
    /\ \E i \in 1..Len(state.info) : state.info[i] = "\nREFINEMENT_FOR_DESTINATIONS:\n"

\* C8: both cycles terminate; a run of the question cycle makes at most 4
\* gateway calls and a run of the destination cycle at most 6.
C8_CyclesTerminate ==
    /\ [](result.call = "process_initial_message" => calls <= 4)
    /\ [](result.call = "finalize_recommendations" => calls <= 6)
    /\ (node \in QuestionNodes) ~> (node = "idle")
    /\ (node \in DestinationNodes) ~> (node = "done")

\* a destination run that spent all 6 calls
C8_Witness ==
    /\ node = "done"
    /\ result.call = "finalize_recommendations"
    /\ calls = 6

\* the position of a stage in ConversationState.WORKFLOW_STAGES
StageRank(stage) == CHOOSE i \in 1..Len(WORKFLOW_STAGES) : WORKFLOW_STAGES[i] = stage

\* C9: the persisted stage of a conversation only moves forward through
\* initial, asking_clarifications, generating_destinations,
\* destinations_complete, commitment_detected, and no chat message changes it
\* once it is commitment_detected.
C9_StageMovesForward ==
    [][(conv.exists /\ conv'.exists /\ conv'.id = conv.id)
       => /\ StageRank(conv'.current_stage) >= StageRank(conv.current_stage)
          /\ (conv.current_stage = "commitment_detected"
                => conv'.current_stage = "commitment_detected")]_vars

\* a message answered in commitment_detected after the commitment itself
C9_Witness ==
    /\ conv.exists
    /\ conv.current_stage = "commitment_detected"
    /\ Len(messages) = 4
    /\ response.status = 200
    /\ response.ai = StartOverText

\* C10: once every queued clarifying question is answered the conversation
\* is in destinations_complete (or beyond) with destinations_text set and a
\* recommendation record of 3 destinations.
C10_AnsweredGivesDestinations ==
    (conv.exists /\ conv.current_stage # "initial" /\ conv.question_queue = <<>>)
    => /\ conv.current_stage \in {"destinations_complete", "commitment_detected"}
       /\ JoinLines(conv.destinations_text) # <<>>
       /\ recs # <<>>
       /\ Len(recs[Len(recs)]) = 3

\* a successful chat request handled in stage destinations_complete with
\* recommendations on record, and the text the user sent in it, lower-cased
PostDestinationStep ==
    /\ conv.exists
    /\ conv.current_stage = "destinations_complete"
    /\ recs # <<>>
    /\ requests' = requests + 1
    /\ response'.status = 200
    /\ response'.message = ""

UserText == lower(messages'[Len(messages') - 1].content)

\* the message contains a commitment phrase
Committed(text) == \E i \in 1..Len(commitment_phrases) : Contains(text, commitment_phrases[i])

\* the latest recommended destinations the message names: the name, or the
\* country, of the record occurs in the message
NamedIn(text) ==
    {i \in 1..Len(recs[Len(recs)]) :
        \/ (recs[Len(recs)][i].name # <<>>
            /\ Contains(text, lower(recs[Len(recs)][i].name)))
        \/ (recs[Len(recs)][i].country # <<>>
            /\ Contains(text, lower(recs[Len(recs)][i].country)))}

\* C11: in stage destinations_complete a message with a commitment phrase
\* that names a recommended destination selects the first destination it
\* names: the trip gets that destination and status destinations_selected,
\* the stage becomes commitment_detected and the reply names the destination.
C11_CommitmentSelectsFirstNamed ==
    [][(PostDestinationStep /\ Committed(UserText) /\ NamedIn(UserText) # {})
       => LET k == CHOOSE i \in NamedIn(UserText) : \A j \in NamedIn(UserText) : i <= j
              chosen == recs[Len(recs)][k].name
          IN  /\ trip'.destination = <<chosen>>
              /\ trip'.status = "destinations_selected"
              /\ conv'.current_stage = "commitment_detected"
              /\ response'.ai = ExcellentText(chosen)]_vars

\* C12: in stage destinations_complete a message with a commitment phrase
\* that names no recommended destination gets the disambiguation prompt and
\* leaves the stage and the trip's destination and status as they were.
C12_UnnamedCommitmentAsks ==
    [][(PostDestinationStep /\ Committed(UserText) /\ NamedIn(UserText) = {})
       => /\ response'.ai = WhichOneText
          /\ conv'.current_stage = conv.current_stage
          /\ trip'.destination = trip.destination
          /\ trip'.status = trip.status]_vars

\* C13: in stage destinations_complete a message without a commitment phrase
\* gets the tell-me-more reply and leaves the stage and the trip's destination
\* and status as they were, also when it names a recommended destination.
C13_NoPhraseNoChange ==
    [][(PostDestinationStep /\ ~Committed(UserText))
       => /\ response'.ai = TellMoreText
          /\ conv'.current_stage = conv.current_stage
          /\ trip'.destination = trip.destination
          /\ trip'.status = trip.status]_vars

\* a destination named without a commitment phrase, answered tell-me-more
C13_Witness ==
    /\ conv.exists
    /\ conv.current_stage = "destinations_complete"
    /\ recs # <<>>
    /\ response.status = 200
    /\ response.ai = TellMoreText
    /\ messages[Len(messages) - 1].content = <<"T">>
    /\ \E i \in 1..Len(recs[Len(recs)]) : recs[Len(recs)][i].name = <<"T">>
    /\ trip.destination = <<>>

\* C14: when a collaborator raises while a chat message is processed, the
\* request leaves no conversation, conversation-state change, message or
\* recommendation record behind, and answers with the generic error text.
C14_FailedRequestRollsBack ==
    [][(requests' = requests + 1 /\ response'.status = 500)
       => /\ conv' = conv
          /\ messages' = messages
          /\ recs' = recs
          /\ response'.error = "An error occurred processing your message"
          /\ response'.ai = <<>>]_vars

\* a first message that failed: no conversation and no message exist
C14_Witness ==
    /\ requests >= 1
    /\ response.status = 500
    /\ ~conv.exists
    /\ messages = <<>>
    /\ recs = <<>>

\* C15: reset_conversation deletes the conversation with its messages, state
\* and recommendation records, sets the trip's status to planning and clears
\* its destination, whatever the stage and also without a conversation; the
\* next chat message is processed as an initial message.
C15_ResetStartsOver ==
    /\ [][(requests' = requests + 1
           /\ response'.message = "Conversation reset successfully")
          => /\ response'.status = 200
             /\ ~conv'.exists
             /\ messages' = <<>>
             /\ recs' = <<>>
             /\ trip'.status = "planning"
             /\ trip'.destination = <<>>]_vars
    /\ [][(response.message = "Conversation reset successfully"
           /\ requests' = requests + 1
           /\ response'.status = 200
           /\ response'.message = "")
          => /\ conv'.exists
             /\ conv'.current_stage = "asking_clarifications"
             /\ conv'.question_queue # <<>>
             /\ conv'.total_questions = Len(conv'.question_queue)
             /\ conv'.questions_asked = 1
             /\ Len(messages') = 2
             /\ conv'.user_info # <<>>
             /\ IsPrefix(messages'[1].content, conv'.user_info)
             /\ response'.ai = conv'.question_queue[1]]_vars

\* a first message accepted by a conversation created after a reset
C15_Witness ==
    /\ requests >= 1
    /\ response.message = "Conversation reset successfully"
    /\ ~conv.exists
    /\ messages = <<>>
    /\ recs = <<>>
    /\ trip.status = "planning"
    /\ trip.destination = <<>>


\* a reply holds a JSON object when some "{" is followed by a "}" with nothing
\* but members between them
ContainsObject(reply) ==
    \E i \in 1..Len(reply) : \E j \in (i + 1)..Len(reply) :
        /\ reply[i].t = "{"
        /\ reply[j].t = "}"
        /\ \A k \in (i + 1)..(j - 1) : reply[k].t = "member"
\* some member of the reply is "grade": "pass"
PassGraded(reply) ==
    \E i \in 1..Len(reply) :
        reply[i].t = "member" /\ reply[i].key = "grade" /\ reply[i].grade = "pass"

\* C16: when the evaluator is consulted and its reply holds no parseable JSON
\* object, the evaluator node raises nothing and sets the grade to "fail" with
\* the non-empty generic note "Evaluator returned non-JSON."; a reply without
\* the exact grade "pass" gives the grade "fail".  Both evaluators.
C16_UnparseableReplyFails ==
    \A reply \in EvaluatorReplies :
        /\ (node = "question_evaluator" /\ QuestionEvaluatorInvokes(state)) =>
              LET st == question_evaluator(state, reply)
              IN  /\ ~ContainsObject(reply) =>
                        /\ st.qe_grade = "fail"
                        /\ st.qe_notes = << <<"Evaluator returned non-JSON.">> >>
                  /\ ~PassGraded(reply) => st.qe_grade = "fail"
                  /\ st.qe_grade \in {"pass", "fail"}
                  /\ st.qe_notes # <<>>
        /\ (node = "destination_evaluator" /\ DestinationEvaluatorInvokes(state)) =>
              LET st == destination_evaluator(state, reply)
              IN  /\ ~ContainsObject(reply) =>
                        /\ st.dest_grade = "fail"
                        /\ st.dest_notes = << <<"Evaluator returned non-JSON.">> >>
                  /\ ~PassGraded(reply) => st.dest_grade = "fail"
                  /\ st.dest_grade \in {"pass", "fail"}
                  /\ st.dest_notes # <<>>

\* both evaluators have answered an unparseable reply with the generic note
C16_Witness ==
    /\ node = "done"
    /\ state.qe_grade = "fail"
    /\ state.qe_notes = << <<"Evaluator returned non-JSON.">> >>
    /\ state.dest_grade = "fail"
    /\ state.dest_notes = << <<"Evaluator returned non-JSON.">> >>

\* the words of a question after normalisation, and whether two questions
\* share at least / more than seven tenths of their words
Tokens(q) == WordSet(Normalize(q))
OverlapAtLeast70(qa, qb) ==
    /\ Tokens(qa) \cup Tokens(qb) # {}
    /\ 10 * Cardinality(Tokens(qa) \cap Tokens(qb)) >= 7 * Cardinality(Tokens(qa) \cup Tokens(qb))
OverlapAbove70(qa, qb) ==
    /\ Tokens(qa) \cup Tokens(qb) # {}
    /\ 10 * Cardinality(Tokens(qa) \cap Tokens(qb)) > 7 * Cardinality(Tokens(qa) \cup Tokens(qb))
MentionsRedundancy(issues) ==
    \E i \in 1..Len(issues) : issues[i] = "Questions are redundant; merge similar ones."
QueuePairs == {p \in (1..Len(state.question_queue)) \X (1..Len(state.question_queue)) : p[1] < p[2]}

\* C17 as stated: whenever two questions of the list overlap by 0.7 or more
\* (exactly 0.7 included), precheck_questions returns an issue that mentions
\* redundancy.
C17_AtLeastSeventyFlagged ==
    (\E p \in QueuePairs :
        OverlapAtLeast70(state.question_queue[p[1]], state.question_queue[p[2]]))
    => MentionsRedundancy(precheck_questions(state.question_queue))

\* C17: precheck_questions returns an issue that mentions redundancy exactly
\* when two questions of the list overlap by more than 0.7; a pair at exactly
\* 0.7 alone is not flagged.
C17_AboveSeventyFlagged ==
    (\E p \in QueuePairs :
        OverlapAbove70(state.question_queue[p[1]], state.question_queue[p[2]]))
    <=> MentionsRedundancy(precheck_questions(state.question_queue))

\* the evaluator has flagged a pair that overlaps by 0.75
C17_Witness ==
    /\ \E p \in QueuePairs :
          OverlapAbove70(state.question_queue[p[1]], state.question_queue[p[2]])
    /\ state.qe_grade = "fail"
    /\ state.qe_notes = << <<"Heuristic: ", "Questions are redundant; merge similar ones.">> >>

BudgetQuestions ==
    << <<"B", "u", "d", "g", "e", "t", "?">>,
       <<"B", "u", "d", "g", "e", "t", " ", "r", "a", "n", "g", "e", "?">>,
       <<"H", "o", "w", " ", "l", "o", "n", "g", "?">> >>

\* C18 as stated: on "1. Budget?\n2. Budget range?\n3. How long?\n"
\* parse_questions returns the three questions and precheck_questions returns
\* a non-empty issue list (overlap between the first two).
C18_BudgetScenarioFlagged ==
    state.feedback = QT_Budget =>
        /\ parse_questions(state.feedback, MAX_N) = BudgetQuestions
        /\ precheck_questions(parse_questions(state.feedback, MAX_N)) # <<>>

\* C18: on that input parse_questions returns the three questions in order
\* and precheck_questions returns no issue: "Budget?" and "Budget range?"
\* share one of two words, an overlap of 0.5, which is not above 0.7.
C18_BudgetScenarioPasses ==
    state.feedback = QT_Budget =>
        /\ parse_questions(state.feedback, MAX_N) = BudgetQuestions
        /\ precheck_questions(parse_questions(state.feedback, MAX_N)) = <<>>
        /\ node = "question_evaluator" =>
              /\ state.question_queue = BudgetQuestions
              /\ QuestionEvaluatorInvokes(state)

\* the evaluator has passed the scenario's questions on to the gateway, whose
\* grade stands
C18_Witness ==
    /\ state.feedback = QT_Budget
    /\ state.question_queue = BudgetQuestions
    /\ node = "idle"
    /\ state.qe_grade = "pass"

ScenarioItems ==
    << [title |-> <<"P", "a", "r", "i", "s", ",", " ", "F", "r", "a", "n", "c", "e">>,
        details |-> <<"C", "i", "t", "y", " ", "o", "f", " ", "l", "i", "g", "h", "t", "s", ",", " ",
                    "g", "r", "e", "a", "t", " ", "f", "o", "o", "d", ".">>],
       [title |-> <<"T", "o", "k", "y", "o", ",", " ", "J", "a", "p", "a", "n">>,
        details |-> <<"M", "o", "d", "e", "r", "n", " ", "a", "n", "d", " ", "h", "i", "s", "t", "o",
                    "r", "i", "c", ".">>],
       [title |-> <<"L", "i", "m", "a", ",", " ", "P", "e", "r", "u">>,
        details |-> <<"A", "n", "d", "e", "a", "n", " ", "c", "u", "i", "s", "i", "n", "e", " ", "a",
                    "n", "d", " ", "c", "o", "a", "s", "t", ".">>] >>

\* C19 as stated: on the text of Paris, Tokyo and Lima parse_destinations
\* returns the three records and precheck_destinations returns no issue.
C19_ScenarioPasses ==
    state.destinations = DT_Scenario =>
        /\ parse_destinations(state.destinations) = ScenarioItems
        /\ precheck_destinations(parse_destinations(state.destinations)) = <<>>

\* C19: on that text parse_destinations returns the three records and
\* precheck_destinations returns the single issue "Justification too
\* short/generic.": the details of Tokyo have three words and those of Lima
\* four, fewer than five.  The evaluator fails the text without consulting
\* the gateway.
C19_ScenarioTooShort ==
    state.destinations = DT_Scenario =>
        /\ parse_destinations(state.destinations) = ScenarioItems
        /\ precheck_destinations(parse_destinations(state.destinations))
               = <<"Justification too short/generic.">>
        /\ node = "destination_evaluator" => ~DestinationEvaluatorInvokes(state)

\* the evaluator has failed the scenario's text on the heuristic
C19_Witness ==
    /\ state.destinations = DT_Scenario
    /\ node \in {"destination_optimizer", "done"}
    /\ state.dest_grade = "fail"
    /\ state.dest_notes = << <<"Heuristic: ", "Justification too short/generic.">> >>

\* a line of the form "<integer>. <text ending in ?>": optional blanks, digits,
\* a dot at position d, at least one blank, then text whose last non-blank
\* character is "?" with at least one character before it
NumberedUpTo(line, d) ==
    /\ d \in 2..Len(line)
    /\ line[d] = "."
    /\ \E f \in 1..(d - 1) :
          /\ \A k \in 1..(f - 1) : IsSpace(line[k])
          /\ \A k \in f..(d - 1) : IsDigit(line[k])
Conforming(line) ==
    \E d \in 1..Len(line) :
        /\ NumberedUpTo(line, d)
        /\ d + 2 < LastNonSpace(line)
        /\ IsSpace(line[d + 1])
        /\ line[LastNonSpace(line)] = "?"
QuestionText(line) ==
    LET d == CHOOSE k \in 1..Len(line) : NumberedUpTo(line, k)
    IN  strip(SubSeq(line, d + 1, Len(line)))
\* the conforming lines whose text no earlier conforming line has, whatever
\* the case of its letters
FirstOccurrences(text) ==
    {i \in 1..Len(text) :
        /\ Conforming(text[i])
        /\ \A j \in 1..(i - 1) :
              Conforming(text[j]) => lower(QuestionText(text[j])) # lower(QuestionText(text[i]))}
ParsesAsContract(text, max_n, out) ==
    LET firsts == FirstOccurrences(text)
    IN  /\ Len(out) = (IF Cardinality(firsts) < max_n THEN Cardinality(firsts) ELSE max_n)
        /\ \A k \in 1..Len(out) :
              \E i \in firsts :
                  /\ Cardinality({j \in firsts : j < i}) = k - 1
                  /\ out[k] = QuestionText(text[i])
        /\ (\A i \in 1..Len(text) : ~Conforming(text[i])) => out = <<>>

\* C20: for the text the gateway returned and every max_n, parse_questions
\* returns, in order, the texts of the conforming lines, keeping the first of
\* the texts that differ only in case and cutting the result to max_n entries
\* after the de-duplication; a text without a conforming line gives the empty
\* list.  The question queue the generator stores is that result for
\* max_n = 6.
C20_ParseQuestionsContract ==
    /\ \A max_n \in 0..MaxLines :
          ParsesAsContract(state.feedback, max_n, parse_questions(state.feedback, max_n))
    /\ node = "question_evaluator" =>
          ParsesAsContract(state.feedback, MAX_N, state.question_queue)

\* the generator has stored the questions of a text whose second question
\* repeats the first in another case
C20_Witness ==
    /\ node = "question_evaluator"
    /\ state.feedback = QT_Dup
    /\ state.question_queue = << <<"a", "?">>, <<"b", "?">> >>

\* A numbered block starts at the first line of the text and at every later
\* line that begins with "<digits>." followed by whitespace or the end of a
\* line that is not the last; it runs to the line before the next start.
\* Its title is its first non-blank line, the number taken off.
StartsBlock(lines, i) ==
    \/ i = 1
    \/ \E d \in 1..Len(lines[i]) :
          /\ NumberedUpTo(lines[i], d)
          /\ IF d < Len(lines[i]) THEN IsSpace(lines[i][d + 1]) ELSE i < Len(lines)
BlockLine(lines, i, j) ==
    IF j = i
    THEN LET d == CHOOSE k \in 1..Len(lines[i]) : NumberedUpTo(lines[i], k)
         IN  strip(SubSeq(lines[i], d + 1, Len(lines[i])))
    ELSE strip(lines[j])
TitleLines(lines, i) ==
    {j \in i..Len(lines) :
        /\ \A k \in (i + 1)..j : ~StartsBlock(lines, k)
        /\ BlockLine(lines, i, j) # <<>>
        /\ \A k \in i..(j - 1) : BlockLine(lines, i, k) = <<>>}
BlockTitle(lines, i) == BlockLine(lines, i, CHOOSE j \in TitleLines(lines, i) : TRUE)
AcceptedBlocks(lines) ==
    {i \in 1..Len(lines) :
        /\ StartsBlock(lines, i)
        /\ \E d \in 1..Len(lines[i]) : NumberedUpTo(lines[i], d)
        /\ TitleLines(lines, i) # {}
        /\ HasChar(BlockTitle(lines, i), ",")}
ParsesAsBlocks(text, out) ==
    LET lines == StripText(text)
        acc == AcceptedBlocks(lines)
    IN  /\ Len(out) = (IF Cardinality(acc) < 3 THEN Cardinality(acc) ELSE 3)
        /\ \A k \in 1..Len(out) :
              /\ HasChar(out[k].title, ",")
              /\ \E i \in acc :
                    /\ Cardinality({j \in acc : j < i}) = k - 1
                    /\ out[k].title = BlockTitle(lines, i)

\* C21: parse_destinations returns, in the order of the text, the first three
\* at most of the numbered blocks whose title holds a comma; a block whose
\* title has none is dropped, nothing takes its place and the result is not
\* padded.  The destinations of the payload of finalize_recommendations are
\* that result.
C21_ParseDestinationsContract ==
    /\ ParsesAsBlocks(state.destinations, parse_destinations(state.destinations))
    /\ result.kind = "success" => ParsesAsBlocks(result.raw, result.destinations)

\* the payload holds the two records of a text whose second title has no
\* comma
C21_Witness ==
    /\ result.kind = "success"
    /\ result.raw = DT_Two
    /\ Len(result.destinations) = 2
    /\ result.destinations[2].title = <<"L", ",", " ", "P">>

\* C22: once the first message has fixed total_questions, the stored
\* conversation state has questions_asked <= total_questions after any
\* sequence of answers, and the progress percentage, stored or reported, is
\* at most 100.
C22_AskedAtMostTotal ==
    /\ (conv.exists /\ conv.current_stage # "initial") =>
          /\ conv.questions_asked <= conv.total_questions
          /\ get_progress_percentage(conv) <= 100
    /\ response.progress <= 100
    /\ response.question_number <= response.total_questions

\* every question of a queue of two or more has been asked and the last one
\* answered
C22_Witness ==
    /\ conv.exists
    /\ conv.current_stage = "generating_destinations"
    /\ conv.total_questions >= 2
    /\ conv.questions_asked = conv.total_questions
    /\ conv.question_queue = <<>>
    /\ get_progress_percentage(conv) = 100

\* a chat request with a message that is not blank, received while the
\* conversation is asking its clarifying questions
AnswerStep ==
    /\ conv.exists
    /\ conv.current_stage = "asking_clarifications"
    /\ conv.question_queue # <<>>
    /\ requests' = requests + 1
    /\ response'.message = ""
    /\ response'.status # 400

\* C23: the persisted record is mapped to a workflow state and back without
\* loss, so that every clarification answer is processed from the persisted
\* fields alone: the request answers 200, the head of the stored queue is
\* consumed, the answer is merged into the stored user_info and the stored
\* destinations_text is what it was.
C23_AnswerProcessedFromRecord ==
    [][AnswerStep =>
        /\ response'.status = 200
        /\ conv'.question_queue = Tail(conv.question_queue)
        /\ IsPrefix(conv.user_info \o <<"\nQ: ">> \o Head(conv.question_queue), conv'.user_info)
        /\ conv'.destinations_text = conv.destinations_text]_vars

\* a chat request answered 200 (the reset's reply carries a message text)
ChatSucceeds == requests' = requests + 1 /\ response'.status = 200 /\ response'.message = ""

\* C24: every chat request that succeeds appends exactly one user message
\* followed by one AI message to the conversation; a first message that
\* succeeds leaves the stage asking_clarifications and total_questions equal
\* to the length of the generated question queue.
C24_SuccessStoresPair ==
    [][ChatSucceeds =>
        /\ Len(messages') = Len(messages) + 2
        /\ SubSeq(messages', 1, Len(messages)) = messages
        /\ messages'[Len(messages) + 1].is_user
        /\ ~messages'[Len(messages) + 2].is_user
        /\ messages'[Len(messages) + 2].content = response'.ai
        /\ (~conv.exists \/ conv.current_stage = "initial") =>
              /\ conv'.exists
              /\ conv'.current_stage = "asking_clarifications"
              /\ conv'.question_queue = state'.question_queue
              /\ conv'.total_questions = Len(state'.question_queue)]_vars

\* a first message has been answered with the first of two or more questions
C24_Witness ==
    /\ response.status = 200
    /\ Len(messages) = 2
    /\ messages[1].is_user
    /\ ~messages[2].is_user
    /\ conv.current_stage = "asking_clarifications"
    /\ conv.total_questions = Len(conv.question_queue)
    /\ conv.total_questions >= 2
    /\ messages[2].content = conv.question_queue[1]

\* C25: views.parse_destinations returns exactly 3 records for every text,
\* here the stored destinations text, the stored questions read as a text and
\* the gateway's destination texts, so every recommendations row holds
\* exactly 3 locations, and so does the list a response carries.
C25_AlwaysThreeLocations ==
    /\ Len(view_parse_destinations(conv.destinations_text)) = 3
    /\ Len(view_parse_destinations(conv.question_queue)) = 3
    /\ requests = 0 => \A text \in DestinationTexts : Len(view_parse_destinations(text)) = 3
    /\ \A i \in 1..Len(recs) : Len(recs[i]) = 3
    /\ response.destinations # <<>> => Len(response.destinations) = 3

\* an answer has produced a recommendations row from a stored text of a
\* preface and four blocks, cut to three
C25_Witness ==
    /\ requests >= 1
    /\ response.status = 200
    /\ conv.current_stage = "destinations_complete"
    /\ conv.destinations_text = DT_Four
    /\ Len(recs) = 1
    /\ response.destinations = recs[1]
    /\ Len(recs[1]) = 3

\* the rows of a trip before and after a step
RowKept(t) ==
    IF t = 1
    THEN trip' = trip /\ conv' = conv /\ messages' = messages /\ recs' = recs
    ELSE other' = other

\* C26: a chat, reset or commitment request for one trip leaves the
\* conversation state, messages, recommendations, destination and status of
\* every other trip as they were, whatever the order of the requests.
C26_OtherTripUntouched ==
    [][requests' = requests + 1 =>
        \A t \in TripIds : request'.trip_id # t => RowKept(t)]_vars

\* trip 1 has committed to a destination while trip 2 is asking its second
\* question
C26_Witness ==
    /\ trip.status = "destinations_selected"
    /\ conv.current_stage = "commitment_detected"
    /\ other.conv.exists
    /\ other.conv.current_stage = "asking_clarifications"
    /\ other.conv.questions_asked = 2
    /\ other.trip.destination = <<>>
    /\ Len(other.messages) = 4

\* a request whose trip id names no trip of the requesting user
ForeignRequest ==
    /\ requests' = requests + 1
    /\ ~(request'.trip_id \in TripIds /\ Owner[request'.trip_id] = request'.user)
NothingDisclosed ==
    /\ response'.stage = ""
    /\ response'.ai = <<>>
    /\ response'.destinations = <<>>
    /\ response'.progress = 0

\* C27 as stated: every chat, get-conversation or reset request for a trip
\* that is not the requesting user's, or does not exist, is answered 404 and
\* changes no row.
C27_ForeignTripNotFound ==
    [][ForeignRequest =>
        /\ response'.status = 404
        /\ \A t \in TripIds : RowKept(t)]_vars

\* C27: such a request changes no row and discloses nothing of the trip; it
\* is answered 404, except that a chat request is answered 429 when it is rate
\* limited and 400 when its message is blank, both checked before the trip is
\* looked up.
C27_ForeignTripRefused ==
    [][ForeignRequest =>
        /\ \A t \in TripIds : RowKept(t)
        /\ NothingDisclosed
        /\ response'.status =
              (IF request'.kind = "chat" /\ request'.limited THEN 429
               ELSE IF request'.kind = "chat" /\ strip(request'.message) = <<>> THEN 400
               ELSE 404)]_vars

\* the owner of trip 1 has asked to reset trip 2, which has a conversation
C27_Witness ==
    /\ request.kind = "reset"
    /\ request.user = "u1"
    /\ request.trip_id = 2
    /\ response.status = 404
    /\ other.conv.exists
    /\ Len(other.messages) >= 2
    /\ other.trip.status = "ai_chat_active"

\* one note per issue, in order, each marked as heuristic
NotesAreIssues(notes, issues) ==
    /\ Len(notes) = Len(issues)
    /\ \A i \in 1..Len(issues) : notes[i] = <<"Heuristic: ", issues[i]>>

\* C28: in both cycles, when the precheck reports an issue the evaluation
\* step sets the grade to fail and the notes to the precheck's issues and makes
\* no gateway call; it calls the gateway exactly when the precheck reports no
\* issue.
C28_PrecheckSparesGateway ==
    [][/\ (node = "question_evaluator" /\ node' # node) =>
            LET issues == precheck_questions(state.question_queue)
            IN  /\ issues # <<>> =>
                      /\ state'.qe_grade = "fail"
                      /\ NotesAreIssues(state'.qe_notes, issues)
                      /\ calls' = calls
                /\ issues = <<>> => calls' = calls + 1
       /\ (node = "destination_evaluator" /\ node' # node) =>
            LET issues == precheck_destinations(parse_destinations(state.destinations))
            IN  /\ issues # <<>> =>
                      /\ state'.dest_grade = "fail"
                      /\ NotesAreIssues(state'.dest_notes, issues)
                      /\ calls' = calls
                /\ issues = <<>> => calls' = calls + 1]_vars

\* both evaluators have failed a text on the precheck alone: the only gateway
\* call of the destination run so far is the generator's
C28_Witness ==
    /\ node = "destination_optimizer"
    /\ state.qe_grade = "fail"
    /\ state.qe_notes = << <<"Heuristic: ", "No parseable questions.">> >>
    /\ state.dest_grade = "fail"
    /\ state.dest_notes = << <<"Heuristic: ", "Did not produce exactly 3 destinations.">> >>
    /\ state.dest_iteration = 0
    /\ calls = 1

\* the evaluation step that has just run chose the optimizer
ToOptimizer(evaluator, optimizer) == node = evaluator /\ node' = optimizer

\* C29: a cycle starts at iteration 0 and goes from its evaluator to its
\* optimizer exactly when the grade is fail and the iteration count is below
\* the cap; every optimizer step raises the count by exactly 1; the iterations
\* value finalize_recommendations returns never exceeds MAX_DEST_ITERS, and a
\* result graded fail is returned only with iterations = MAX_DEST_ITERS.
C29_OptimizerBelowCapOnly ==
    /\ [](result.kind = "success" =>
            /\ result.iterations <= MAX_DEST_ITERS
            /\ result.grade = "fail" => result.iterations = MAX_DEST_ITERS)
    /\ [][/\ (node = "new" /\ node' # node) => state'.question_iteration = 0
          /\ (node = "idle" /\ node' = "destination_generator") => state'.dest_iteration = 0
          /\ (node = "question_evaluator" /\ node' # node) =>
                (ToOptimizer("question_evaluator", "question_optimizer")
                    <=> (state'.qe_grade = "fail" /\ state'.question_iteration < MAX_Q_ITERS))
          /\ (node = "destination_evaluator" /\ node' # node) =>
                (ToOptimizer("destination_evaluator", "destination_optimizer")
                    <=> (state'.dest_grade = "fail" /\ state'.dest_iteration < MAX_DEST_ITERS))
          /\ (node = "question_optimizer" /\ node' # node) =>
                state'.question_iteration = state.question_iteration + 1
          /\ (node = "destination_optimizer" /\ node' # node) =>
                state'.dest_iteration = state.dest_iteration + 1
          /\ (node \in {"question_generator", "question_evaluator"}) =>
                state'.question_iteration = state.question_iteration
          /\ (node \in {"destination_generator", "destination_evaluator"}) =>
                state'.dest_iteration = state.dest_iteration]_vars

\* the destination cycle used up its iterations and returned a failed result
C29_Witness ==
    /\ node = "done"
    /\ result.kind = "success"
    /\ result.grade = "fail"
    /\ result.iterations = MAX_DEST_ITERS
    /\ state.dest_iteration = MAX_DEST_ITERS

\* the lists precheck_destinations is examined on: the parsed text, its
\* prefixes, pieces of its doubling (lengths 0 to 6) and lists of 3 drawn
\* from its items with repetition
ListsOf(items) ==
    {SubSeq(items, 1, k) : k \in 0..Len(items)}
    \cup {SubSeq(items \o items, a, b) :
            a \in 1..2, b \in {k \in {4, 2 * Len(items)} : k <= 2 * Len(items)}}
    \cup {<<items[p[1]], items[p[2]], items[p[3]]>> :
            p \in {q \in {<<1, 1, 2>>, <<2, 2, 3>>, <<1, 2, 2>>, <<3, 2, 1>>} : Len(items) = 3}}
ItemLists(text) == UNION {ListsOf(items) : items \in {parse_destinations(text)}}

Times(issues, issue) == Cardinality({i \in 1..Len(issues) : issues[i] = issue})
DistinctCities(items) ==
    \A i, j \in 1..Len(items) : i # j => City(items[i].title) # City(items[j].title)
SomeShort(items) == \E i \in 1..Len(items) : WordCount(items[i].details) < 5

\* C30: precheck_destinations on a list whose length is not 3 returns exactly
\* the single issue "Did not produce exactly 3 destinations."; on a list of 3
\* it reports the duplicate-city issue once when two cities coincide and never
\* otherwise, the too-short issue once when some details has fewer than 5
\* tokens and never otherwise, and nothing else; the result is empty only
\* when the cities are distinct and every details has at least 5 tokens.
C30_PrecheckDestinationsContract ==
    \A items \in ItemLists(state.destinations) :
        LET issues == precheck_destinations(items)
            dup == "Duplicate city detected; ensure three distinct cities."
            short == "Justification too short/generic."
        IN  /\ Len(items) # 3 => issues = <<"Did not produce exactly 3 destinations.">>
            /\ Len(items) = 3 =>
                  /\ \A i \in 1..Len(issues) : issues[i] \in {dup, short}
                  /\ Times(issues, dup) = IF DistinctCities(items) THEN 0 ELSE 1
                  /\ Times(issues, short) = IF SomeShort(items) THEN 1 ELSE 0
                  /\ issues = <<>> <=> (DistinctCities(items) /\ ~SomeShort(items))

\* a list of 3 with two short justifications was prechecked and the issue
\* is reported once; the same items with the first repeated yield both issues
C30_Witness ==
    /\ node = "destination_optimizer"
    /\ state.destinations = DT_Scenario
    /\ LET items == parse_destinations(state.destinations)
       IN  /\ Len(items) = 3
           /\ Cardinality({i \in 1..3 : WordCount(items[i].details) < 5}) = 2
           /\ precheck_destinations(<<items[1], items[1], items[2]>>)
                = <<"Duplicate city detected; ensure three distinct cities.",
                    "Justification too short/generic.">>
    /\ state.dest_notes = << <<"Heuristic: ", "Justification too short/generic.">> >>


\* the step is an advance of the planning session, by the endpoint or by the
\* model method
Advances ==
    /\ requests' = requests + 1
    /\ request'.kind \in {"advance_stage", "advance_to_next_stage"}

StageOrder ==
    <<"destination", "accommodation", "flights", "activities", "itinerary", "finalization",
      "completed">>

AdvanceStageStep == requests' = requests + 1 /\ request'.kind = "advance_stage"

\* the trip status named for a planning stage
StageStatus ==
    { <<"accommodation", "hotels_selected">>, <<"flights", "flights_selected">>,
      <<"activities", "activities_planned">>, <<"itinerary", "itinerary_complete">>,
      <<"completed", "booked">> }

C40_ProgressNeverDecreases ==
    /\ [](status(session).progress_percentage \in 0..1000)
    /\ [][Advances =>
            status(session').progress_percentage >= status(session).progress_percentage]_vars

\* the conversation row after the answers first and second are handled one
\* after the other, starting from the rows seen
Serial(seen, first, second) ==
    LET one == chat_message(seen.trip, seen.conv, seen.messages, seen.recs, 1, first,
                            NewState(<<>>), FALSE)
    IN  chat_message(one.trip, one.conv, one.messages, one.recs, 2, second,
                     NewState(<<>>), FALSE).conv

\* C33: two chat requests for one conversation in asking_clarifications
\* that overlap in time and both succeed leave the conversation row as the
\* same two requests handled one after the other do: two questions gone from
\* the queue, both Q/A pairs in user_info.
C33_OverlapActsSerially ==
    (/\ inflight # <<>>
     /\ \A h \in Handlers : /\ inflight[h].phase = "done"
                            /\ inflight[h].overlapped
                            /\ inflight[h].status = 200)
    => /\ Len(conv.question_queue) = Len(inflight[1].seen.conv.question_queue) - 2
       /\ conv \in {Serial(inflight[1].seen, inflight[1].message, inflight[2].message),
                    Serial(inflight[1].seen, inflight[2].message, inflight[1].message)}

\* the step is a chat request that ended in the generic failure
ChatFails == requests' = requests + 1 /\ response'.status = 500

\* C34: a chat request that fails leaves the trip as it was before the
\* request; a trip in planning is still in planning afterwards.
C34_FailureKeepsTrip == [][ChatFails => trip' = trip]_vars

\* the longest sequence of messages tried
LeaveWithin == 7

\* some sequence of at most k messages, each handled without a failure,
\* changes the stage of the conversation in row
RECURSIVE CanLeave(_, _)
CanLeave(row, k) ==
    /\ k > 0
    /\ \E message \in ChatMessages :
          \E initial \in (IF row.conv.current_stage = "initial"
                          THEN ChatRuns[message] ELSE {NewState(<<>>)}) :
             \E out \in {chat_message(row.trip, row.conv, row.messages, row.recs, 1, message,
                                       initial, FALSE)} :
                /\ out.response.status = 200
                /\ \/ out.conv.current_stage # row.conv.current_stage
                   \/ CanLeave([trip |-> out.trip, conv |-> out.conv, messages |-> out.messages,
                                 recs |-> out.recs], k - 1)

\* C35: from each of the stages initial, asking_clarifications,
\* generating_destinations and destinations_complete some sequence of user
\* messages, handled without a failure, changes the stage.
C35_StageCanBeLeft ==
    conv.current_stage \in {"initial", "asking_clarifications", "generating_destinations",
                            "destinations_complete"}
    => CanLeave([trip |-> trip, conv |-> conv, messages |-> messages, recs |-> recs],
                LeaveWithin)

\* the step is a chat request that answers a clarifying question and succeeds
AnswerAccepted ==
    /\ conv.exists
    /\ conv.current_stage = "asking_clarifications"
    /\ requests' = requests + 1
    /\ response'.status = 200
    /\ response'.message = ""

\* the question most recently shown: the content of the last AI message
LastShown == messages[Len(messages)].content

EvaluationOf(text, grade, notes) ==
    LET issues == precheck_destinations(parse_destinations(text))
    IN  IF issues # <<>>
        THEN grade = "fail" /\ NotesAreIssues(notes, issues)
        ELSE \E reply \in EvaluatorReplies :
                /\ grade = GradeOf(EvaluatorData(reply))
                /\ notes = NotesOf(EvaluatorData(reply),
                                   << <<"Increase specificity and align with constraints.">> >>)

\* C37: the grade and notes finalize_recommendations returns are an
\* evaluation of the raw text it returns, which is the text generated last,
\* and the destinations it returns are the parse of that raw text.
C37_ResultDescribesRaw ==
    result.kind = "success" =>
        /\ result.raw = state.destinations
        /\ result.destinations = parse_destinations(result.raw)
        /\ EvaluationOf(result.raw, result.grade, result.notes)

\* a first text failed, the cycle generated again, and the result carries
\* the second text with the gateway's pass for it
C37_Witness ==
    /\ node = "done"
    /\ result.kind = "success"
    /\ result.iterations = 1
    /\ result.raw = DT_Good
    /\ result.grade = "pass"
    /\ result.notes = <<Note1>>
    /\ Len(result.destinations) = 3

\* the names of the latest recommended locations
LatestNames == IF recs = <<>> THEN {} ELSE {recs[Len(recs)][i].name : i \in 1..Len(recs[Len(recs)])}

\* the conversation stands in commitment_detected
CommitmentDetected(cs) == cs.exists /\ cs.current_stage = "commitment_detected"

\* the trip carries a selected destination
DestinationSelected(tr) == tr.status = "destinations_selected" /\ tr.destination # <<>>

C39_SelectsOnlyNamed ==
    [][(PostDestinationStep /\ Committed(UserText) /\ CommitmentDetected(conv'))
       => \E i \in NamedIn(UserText) : trip'.destination = <<recs[Len(recs)][i].name>>]_vars
====
